---------------------------- MODULE Spec2Model ----------------------------
(***************************************************************************)
(* A model of the device-driver toolkit:                                   *)
(*   - the generated field-set type (generation/src/lir/token_transform/   *)
(*     field_set_transform.rs) and the bit load/store operations its       *)
(*     accessors call,                                                     *)
(*   - the register accessor read / write / modify (src/ll/register.rs)    *)
(*     over a register interface,                                          *)
(*   - the resolver from the parsed DSL to the mid-level model             *)
(*     (generation/src/dsl_hir_mir_transform.rs).                          *)
(* Each part is a specification of its own over the variables below.       *)
(***************************************************************************)
EXTENDS Integers, Sequences, FiniteSets, TLC

VARIABLES
    fs,             \* lir::FieldSet handed to generate_field_set
    generated,      \* what generate_field_set emitted for fs
    bits,           \* the `bits` array of one instance of the generated type
    call,           \* the last call made on the generated type
    device_memory,  \* DeviceInterface::device_memory
    reg,            \* the register: access specifier and address given to the macro
    calls,          \* interface calls made by the last accessor operation
    op,             \* the last accessor operation and what it returned
    hist,           \* accessor operations that returned Ok since construction
    device,         \* dsl_hir::Device handed to transform
    result,         \* what transform returned for device
    overflow_checks, \* the build of the resolver: overflow-checks on (debug) or off
    parse_input,    \* the parser of dsl_hir called and the tokens it is given
    parse_result,   \* what that parser returned
    cs_pin,         \* ChipInterface::cs_pin: the level of chip-select
    spi_bus,        \* operations on ChipInterface::communication_interface so far
    spi_calls,      \* read_register / write_register calls so far, with their results
    mask_of,        \* an implementor of InfallibleField and a value of its repr
    transmuted      \* `val as u32 & MASK` for it

vars == <<fs, generated, bits, call, device_memory, reg, calls, op, hist,
          device, result, overflow_checks, parse_input, parse_result,
          cs_pin, spi_bus, spi_calls, mask_of, transmuted>>

fsVars == <<fs, generated, bits, call>>
regVars == <<device_memory, reg, calls, op, hist>>
resVars == <<device, result, overflow_checks>>
parseVars == <<parse_input, parse_result>>
spiVars == <<cs_pin, spi_bus, spi_calls>>
maskVars == <<mask_of, transmuted>>

\* TokenStream::new(): nothing emitted.
NoTokens == [empty |-> TRUE]

(***************************************************************************)
(* Bounds of the model.                                                    *)
(***************************************************************************)
\* Bit size of the enumerated field sets.
SizeBits == 10
\* Widest field whose range and values are enumerated exhaustively.
MaxWidth == 3
\* Accessor operations followed from the construction of the device.
MaxOps == 4

Pow2(n) == 2 ^ n

Min(a, b) == IF a < b THEN a ELSE b
Max(a, b) == IF a > b THEN a ELSE b

\* u32::div_ceil
div_floor(a, b) == a \div b
div_ceil(a, b) == IF a % b > 0 THEN a \div b + 1 ELSE a \div b

Zeros(n) == [i \in 1..n |-> 0]

(***************************************************************************)
(* mir enums used by the field set generator.                              *)
(***************************************************************************)
Access == {"RW", "RC", "RO", "WO", "CO"}
ByteOrder == {"LE", "BE"}
BitOrder == {"LSB0", "MSB0"}

SignedTypes == {"i8", "i16", "i32"}
UnsignedTypes == {"u8", "u16", "u32"}

(***************************************************************************)
(* device_driver::ops: the bit load / store operations the generated       *)
(* accessors call.  data is the byte array, bit index i of the field lives *)
(* in byte i / 8; the bit order picks the position inside the byte, the    *)
(* byte order picks which byte of the field is the low-order one.          *)
(***************************************************************************)
\* Position (0 = least significant) of bit index i inside its byte.
BitPos(bit_order, i) == IF bit_order = "LSB0" THEN i % 8 ELSE 7 - (i % 8)

\* Significance of bit index i in the value of the field [start, end).
Significance(byte_order, bit_order, start, end, i) ==
    LET b == i \div 8
        chunk_start == Max(start, 8 * b)
        chunk_end == Min(end, 8 * b + 8)
        rank == IF bit_order = "LSB0" THEN i - chunk_start ELSE chunk_end - 1 - i
        offset == IF byte_order = "LE" THEN chunk_start - start ELSE end - chunk_end
    IN  offset + rank

GetBit(data, bit_order, i) == (data[(i \div 8) + 1] \div Pow2(BitPos(bit_order, i))) % 2

SetBit(data, bit_order, i, x) ==
    LET p == Pow2(BitPos(bit_order, i))
    IN  [data EXCEPT ![(i \div 8) + 1] = @ - ((@ \div p) % 2) * p + x * p]

RECURSIVE LoadRaw(_, _, _, _, _, _)
LoadRaw(byte_order, bit_order, data, start, end, i) ==
    IF i >= end THEN 0
    ELSE GetBit(data, bit_order, i) * Pow2(Significance(byte_order, bit_order, start, end, i))
         + LoadRaw(byte_order, bit_order, data, start, end, i + 1)

RECURSIVE StoreRaw(_, _, _, _, _, _, _)
StoreRaw(byte_order, bit_order, raw, start, end, data, i) ==
    IF i >= end THEN data
    ELSE StoreRaw(byte_order, bit_order, raw, start, end,
                  SetBit(data, bit_order, i,
                         (raw \div Pow2(Significance(byte_order, bit_order, start, end, i))) % 2),
                  i + 1)

\* The unsigned value read, sign-extended from the field's highest bit for a signed T.
SignExtend(T, width, raw) ==
    IF T \in SignedTypes /\ width > 0 /\ raw >= Pow2(width - 1) THEN raw - Pow2(width) ELSE raw

\* The low `width` bits of value (two's complement for a negative value).
Truncate(width, value) == value % Pow2(width)

load_lsb0(T, ByteO, data, start, end) ==
    SignExtend(T, end - start, LoadRaw(ByteO, "LSB0", data, start, end, start))

load_msb0(T, ByteO, data, start, end) ==
    SignExtend(T, end - start, LoadRaw(ByteO, "MSB0", data, start, end, start))

store_lsb0(T, ByteO, value, start, end, data) ==
    StoreRaw(ByteO, "LSB0", Truncate(end - start, value), start, end, data, start)

store_msb0(T, ByteO, value, start, end, data) ==
    StoreRaw(ByteO, "MSB0", Truncate(end - start, value), start, end, data, start)


(***************************************************************************)
(* generate_field_set and the accessors it emits.                          *)
(***************************************************************************)
\* load_function with the byte order of its last arm mistaken.
load_function_be_as_le(base_type, byte_order, bit_order) ==
    CASE byte_order = "LE" /\ bit_order = "LSB0" -> [fn |-> "load_lsb0", T |-> base_type, ByteO |-> "LE"]
      [] byte_order = "LE" /\ bit_order = "MSB0" -> [fn |-> "load_msb0", T |-> base_type, ByteO |-> "LE"]
      [] byte_order = "BE" /\ bit_order = "LSB0" -> [fn |-> "load_lsb0", T |-> base_type, ByteO |-> "BE"]
      [] byte_order = "BE" /\ bit_order = "MSB0" -> [fn |-> "load_msb0", T |-> base_type, ByteO |-> "LE"]

\* match (byte_order, bit_order) of get_read_function: the load operation called.
load_function(base_type, byte_order, bit_order) ==
    CASE byte_order = "LE" /\ bit_order = "LSB0" -> [fn |-> "load_lsb0", T |-> base_type, ByteO |-> "LE"]
      [] byte_order = "LE" /\ bit_order = "MSB0" -> [fn |-> "load_msb0", T |-> base_type, ByteO |-> "LE"]
      [] byte_order = "BE" /\ bit_order = "LSB0" -> [fn |-> "load_lsb0", T |-> base_type, ByteO |-> "BE"]
      [] byte_order = "BE" /\ bit_order = "MSB0" -> [fn |-> "load_msb0", T |-> base_type, ByteO |-> "BE"]

\* store_function with the bit order of its second arm mistaken.
store_function_msb0_as_lsb0(base_type, byte_order, bit_order) ==
    CASE byte_order = "LE" /\ bit_order = "LSB0" -> [fn |-> "store_lsb0", T |-> base_type, ByteO |-> "LE"]
      [] byte_order = "LE" /\ bit_order = "MSB0" -> [fn |-> "store_lsb0", T |-> base_type, ByteO |-> "LE"]
      [] byte_order = "BE" /\ bit_order = "LSB0" -> [fn |-> "store_lsb0", T |-> base_type, ByteO |-> "BE"]
      [] byte_order = "BE" /\ bit_order = "MSB0" -> [fn |-> "store_msb0", T |-> base_type, ByteO |-> "BE"]

\* match (byte_order, bit_order) of get_write_function: the store operation called.
store_function(base_type, byte_order, bit_order) ==
    CASE byte_order = "LE" /\ bit_order = "LSB0" -> [fn |-> "store_lsb0", T |-> base_type, ByteO |-> "LE"]
      [] byte_order = "LE" /\ bit_order = "MSB0" -> [fn |-> "store_msb0", T |-> base_type, ByteO |-> "LE"]
      [] byte_order = "BE" /\ bit_order = "LSB0" -> [fn |-> "store_lsb0", T |-> base_type, ByteO |-> "BE"]
      [] byte_order = "BE" /\ bit_order = "MSB0" -> [fn |-> "store_msb0", T |-> base_type, ByteO |-> "BE"]

\* The getter emitted for a readable field (the quote! of get_read_function).
read_function_tokens(field, byte_order, bit_order) ==
    [empty |-> FALSE,
     name |-> field.name,
     load_function |-> load_function(field.base_type, byte_order, bit_order),
     start_bit |-> field.address.start,
     end_bit |-> field.address.end,
     conversion |-> field.conversion_method]

\* get_read_function that also emits a getter for a read-clear field.
get_read_function_rc(field, byte_order, bit_order) ==
    IF ~(field.access \in {"RW", "RO", "RC"}) THEN NoTokens
    ELSE read_function_tokens(field, byte_order, bit_order)

get_read_function(field, byte_order, bit_order) ==
    IF ~(field.access \in {"RW", "RO"}) THEN NoTokens
    ELSE read_function_tokens(field, byte_order, bit_order)

\* The setter emitted for a writable field (the quote! of get_write_function).
write_function_tokens(field, byte_order, bit_order) ==
    [empty |-> FALSE,
     name |-> field.name,
     store_function |-> store_function(field.base_type, byte_order, bit_order),
     start_bit |-> field.address.start,
     end_bit |-> field.address.end,
     conversion |-> field.conversion_method]

get_write_function(field, byte_order, bit_order) ==
    IF ~(field.access \in {"RW", "WO"}) THEN NoTokens
    ELSE write_function_tokens(field, byte_order, bit_order)

SeqToSet(s) == {s[i] : i \in 1..Len(s)}

\* ref_name.to_case(convert_case::Case::Snake), on the ref names in use.
to_case_snake ==
    [name \in {"MyRef", "OtherRef", "my_ref"} |->
        CASE name = "MyRef" -> "my_ref"
          [] name = "OtherRef" -> "other_ref"
          [] name = "my_ref" -> "my_ref"]

\* Ref constructors that load the base reset value.
ref_value_constructors_base_reset(value) ==
    [i \in 1..Len(value.ref_reset_overrides) |->
        [name |-> "new_as_" \o to_case_snake[value.ref_reset_overrides[i][1]],
         bits |-> value.reset_value]]

\* One `pub const fn new_as_<ref>() -> Self` per ref reset override.
ref_value_constructors(value) ==
    [i \in 1..Len(value.ref_reset_overrides) |->
        [name |-> "new_as_" \o to_case_snake[value.ref_reset_overrides[i][1]],
         bits |-> value.ref_reset_overrides[i][2]]]

\* debug_impl: one `.field(name, &self.name())` for each field of the set.
debug_field_calls(fields) == [i \in 1..Len(fields) |-> fields[i].name]

\* defmt_impl: with a defmt feature, one `self.name()` for each field of the set.
defmt_field_calls(fields, defmt_feature) ==
    IF defmt_feature = <<>> THEN <<>> ELSE [i \in 1..Len(fields) |-> fields[i].name]

\* The defmt_feature the generator is run with: Some("defmt-03").
DefmtFeature == <<"defmt-03">>

generate_field_set(value) ==
    IF value.size_bits = 0 THEN NoTokens
    ELSE [empty |-> FALSE,
          debug_field_calls |-> debug_field_calls(value.fields),
          defmt_field_calls |-> defmt_field_calls(value.fields, DefmtFeature),
          size_bytes |-> div_ceil(value.size_bits, 8),
          size_bits |-> value.size_bits,
          new |-> value.reset_value,
          new_zero |-> Zeros(div_ceil(value.size_bits, 8)),
          ref_value_constructors |-> ref_value_constructors(value),
          read_functions |->
              {get_read_function(f, value.byte_order, value.bit_order) :
                  f \in SeqToSet(value.fields)} \ {NoTokens},
          write_functions |->
              {get_write_function(f, value.byte_order, value.bit_order) :
                  f \in SeqToSet(value.fields)} \ {NoTokens}]

\* Body of an emitted getter: load the raw value, then convert it.
read_body(rf, data) ==
    LET lf == rf.load_function
        raw == IF lf.fn = "load_lsb0"
               THEN load_lsb0(lf.T, lf.ByteO, data, rf.start_bit, rf.end_bit)
               ELSE load_msb0(lf.T, lf.ByteO, data, rf.start_bit, rf.end_bit)
    IN  IF rf.conversion = "Bool" THEN raw > 0 ELSE raw

\* Body of an emitted setter: convert the value, then store the raw value.
write_body(wf, data, value) ==
    LET sf == wf.store_function
        raw == IF wf.conversion = "Bool" THEN (IF value THEN 1 ELSE 0) ELSE value
    IN  IF sf.fn = "store_lsb0"
        THEN store_lsb0(sf.T, sf.ByteO, raw, wf.start_bit, wf.end_bit, data)
        ELSE store_msb0(sf.T, sf.ByteO, raw, wf.start_bit, wf.end_bit, data)

(***************************************************************************)
(* The field sets the generator is run on.                                 *)
(***************************************************************************)
Field(name, start, end, base_type, conversion_method, access) ==
    [name |-> name, address |-> [start |-> start, end |-> end], base_type |-> base_type,
     conversion_method |-> conversion_method, access |-> access]

FieldSet(byte_order, bit_order, size_bits, reset_value, ref_reset_overrides, fields) ==
    [byte_order |-> byte_order, bit_order |-> bit_order, size_bits |-> size_bits,
     reset_value |-> reset_value, ref_reset_overrides |-> ref_reset_overrides,
     fields |-> fields]

\* Every bit range of at most MaxWidth bits inside SizeBits bits.
Ranges == {r \in (0..SizeBits) \X (0..SizeBits) : r[1] < r[2] /\ r[2] - r[1] <= MaxWidth}

Kinds(width) == IF width = 1 THEN {"bool", "uint", "int"} ELSE {"uint", "int"}

\* A read-write field on the range r, with a read-only field below it and a
\* read-only field above it that fill the rest of the bit space.
RangeFields(r, kind) ==
    (IF r[1] > 0 THEN <<Field("lo", 0, r[1], "u32", "None", "RO")>> ELSE <<>>)
    \o <<Field("f", r[1], r[2],
               IF kind = "int" THEN "i8" ELSE "u8",
               IF kind = "bool" THEN "Bool" ELSE "None", "RW")>>
    \o (IF r[2] < SizeBits THEN <<Field("hi", r[2], SizeBits, "u32", "None", "RO")>> ELSE <<>>)

RangeFieldSets ==
    UNION {{FieldSet(bo, bito, SizeBits, Zeros(div_ceil(SizeBits, 8)), <<>>,
                     RangeFields(r, kind)) :
                bo \in ByteOrder, bito \in BitOrder, kind \in Kinds(r[2] - r[1])} :
           r \in Ranges}

\* register Foo of device-driver/tests/register-driver.rs, under every regime, and
\* with every access on its middle field.
FooFields(access) ==
    <<Field("value_0", 0, 1, "u8", "Bool", "RW"),
      Field("value_1", 1, 16, "u16", "None", access),
      Field("value_2", 16, 24, "i8", "None", "RW")>>

FooFieldSets ==
    {FieldSet(bo, bito, 24, Zeros(3), <<>>, FooFields("RW")) :
        bo \in ByteOrder, bito \in BitOrder}
    \cup {FieldSet("LE", "LSB0", 24, Zeros(3), <<>>, FooFields(access)) : access \in Access}

\* A field that spans three bytes.
WideFieldSets ==
    {FieldSet(bo, bito, 24, Zeros(3), <<>>,
              <<Field("wide", 6, 18, IF signed THEN "i16" ELSE "u16", "None", "RW")>>) :
        bo \in ByteOrder, bito \in BitOrder, signed \in BOOLEAN}

\* The field set of tests::field_set_correct.
MyRegister ==
    FieldSet("BE", "LSB0", 20, <<1, 2, 3>>, <<<<"MyRef", <<0, 1, 2>>>>>>,
             <<Field("my_field", 0, 4, "u8", "UnsafeInto", "RW"),
               Field("my_field2", 4, 16, "i16", "None", "WO")>>)

\* The same register with two refs that override the reset value, and with one
\* whose name is in snake case already.
TwoRefRegister ==
    [MyRegister EXCEPT !.ref_reset_overrides =
        <<<<"MyRef", <<0, 1, 2>>>>, <<"OtherRef", <<255, 0, 16>>>>>>]
SnakeRefRegister ==
    [MyRegister EXCEPT !.ref_reset_overrides = <<<<"my_ref", <<7, 7, 7>>>>>>]

\* Field sets of 20 bits whose reset value, or whose ref's reset value, does not
\* have three bytes.
ShortResetFieldSets ==
    {FieldSet("LE", "LSB0", 20, <<1, 2>>, <<>>, <<>>),
     FieldSet("LE", "LSB0", 20, <<1, 2, 3>>, <<<<"MyRef", <<0, 1, 2, 3>>>>>>, <<>>)}

\* Field sets without fields, of every size from one bit to just over two bytes.
MaxSizeBits == 17
SizedFieldSets ==
    {FieldSet("LE", "LSB0", n, Zeros(div_ceil(n, 8)), <<>>, <<>>) : n \in 1..MaxSizeBits}

\* A field set without bits: all its uses are covered by the unit type.
UnitFieldSet == FieldSet("LE", "LSB0", 0, <<>>, <<>>, <<>>)

FieldSets ==
    RangeFieldSets \cup FooFieldSets \cup WideFieldSets
    \cup {MyRegister, TwoRefRegister, SnakeRefRegister, UnitFieldSet}
    \cup ShortResetFieldSets \cup SizedFieldSets

FieldWidth(f) == f.address.end - f.address.start

\* Values representable in the field: all of them for a narrow field, the corner
\* values for a wide one.
ValuesOf(f) ==
    LET w == FieldWidth(f)
    IN  IF f.conversion_method = "Bool" THEN BOOLEAN
        ELSE IF f.base_type \in SignedTypes
        THEN IF w <= MaxWidth THEN (-Pow2(w - 1))..(Pow2(w - 1) - 1)
             ELSE {0, -1, -Pow2(w - 1), Pow2(w - 1) - 1}
        ELSE IF w <= MaxWidth THEN 0..(Pow2(w) - 1)
             ELSE {0, Pow2(w) - 1} \cup ({12345} \cap (0..(Pow2(w) - 1)))

FieldNamed(value, name) ==
    CHOOSE f \in SeqToSet(value.fields) : f.name = name

\* Byte arrays handed to From<[u8; N]>.
SampleArrays(n) == {[i \in 1..n |-> IF i % 2 = 1 THEN 165 ELSE 60], [i \in 1..n |-> 255]}

(***************************************************************************)
(* The field set specification: generate the type, construct a value, call *)
(* its accessors.                                                          *)
(***************************************************************************)
RegIdle ==
    /\ device_memory = <<>>
    /\ reg = [access |-> "RW", address |-> 0]
    /\ calls = <<>>
    /\ op = [name |-> "none"]
    /\ hist = <<>>

ResIdle ==
    /\ device = [state |-> "none"]
    /\ result = [state |-> "none"]
    /\ overflow_checks = TRUE

ParseIdle ==
    /\ parse_input = [parser |-> "none"]
    /\ parse_result = [state |-> "none"]

SpiIdle ==
    /\ cs_pin = "High"
    /\ spi_bus = <<>>
    /\ spi_calls = <<>>

MaskIdle ==
    /\ mask_of = [name |-> "none"]
    /\ transmuted = [state |-> "none"]

Init ==
    /\ fs \in FieldSets
    /\ generated = [state |-> "pending"]
    /\ bits = <<>>
    /\ call = [op |-> "none"]
    /\ RegIdle
    /\ ResIdle
    /\ ParseIdle
    /\ SpiIdle
    /\ MaskIdle

\* The emitted items type-check: every array literal given to `bits` has the
\* length of its type [u8; size_bytes].
compiles(tokens) ==
    /\ Len(tokens.new) = tokens.size_bytes
    /\ \A i \in 1..Len(tokens.ref_value_constructors) :
          Len(tokens.ref_value_constructors[i].bits) = tokens.size_bytes

HasType ==
    /\ generated.state = "done"
    /\ ~generated.tokens.empty
    /\ compiles(generated.tokens)
HasValue == HasType /\ call.op # "none"

Generate ==
    /\ generated.state = "pending"
    /\ generated' = [state |-> "done", tokens |-> generate_field_set(fs)]
    /\ UNCHANGED <<fs, bits, call, regVars, resVars, parseVars, spiVars, maskVars>>

New ==
    /\ HasType
    /\ bits' = generated.tokens.new
    /\ call' = [op |-> "new"]
    /\ UNCHANGED <<fs, generated, regVars, resVars, parseVars, spiVars, maskVars>>

NewZero ==
    /\ HasType
    /\ bits' = generated.tokens.new_zero
    /\ call' = [op |-> "new_zero"]
    /\ UNCHANGED <<fs, generated, regVars, resVars, parseVars, spiVars, maskVars>>

NewAsRef ==
    /\ HasType
    /\ \E i \in 1..Len(generated.tokens.ref_value_constructors) :
          /\ bits' = generated.tokens.ref_value_constructors[i].bits
          /\ call' = [op |-> "new_as", name |-> generated.tokens.ref_value_constructors[i].name]
    /\ UNCHANGED <<fs, generated, regVars, resVars, parseVars, spiVars, maskVars>>

From ==
    /\ HasType
    /\ \E array \in SampleArrays(generated.tokens.size_bytes) :
          bits' = array
    /\ call' = [op |-> "from"]
    /\ UNCHANGED <<fs, generated, regVars, resVars, parseVars, spiVars, maskVars>>

Getter ==
    /\ HasValue
    /\ \E rf \in generated.tokens.read_functions :
          LET after_set == call.op = "set" /\ call.name = rf.name
          IN  call' = [op |-> "get", name |-> rf.name, ret |-> read_body(rf, bits),
                       after_set |-> after_set,
                       set_value |-> IF after_set THEN call.value ELSE 0]
    /\ UNCHANGED <<fs, generated, bits, regVars, resVars, parseVars, spiVars, maskVars>>

Setter ==
    /\ HasValue
    /\ \E wf \in generated.tokens.write_functions :
          \E value \in ValuesOf(FieldNamed(fs, wf.name)) :
              /\ bits' = write_body(wf, bits, value)
              /\ call' = [op |-> "set", name |-> wf.name, value |-> value]
    /\ UNCHANGED <<fs, generated, regVars, resVars, parseVars, spiVars, maskVars>>

Next ==
    \/ Generate
    \/ New
    \/ NewZero
    \/ NewAsRef
    \/ From
    \/ Getter
    \/ Setter

Spec == Init /\ [][Next]_vars

(***************************************************************************)
(* Properties of the generated field set.                                  *)
(***************************************************************************)
GetterNames(tokens) == IF tokens.empty THEN {} ELSE {rf.name : rf \in tokens.read_functions}
SetterNames(tokens) == IF tokens.empty THEN {} ELSE {wf.name : wf \in tokens.write_functions}

FieldSpansBytes(f) == f.address.start \div 8 < (f.address.end - 1) \div 8

\* C1: round trip.  A getter called right after the setter of the same field
\* returns the value the setter was given, whatever the range, the regime and
\* the buffer content before; a negative value of a signed field comes back
\* negative.
C1_RoundTrip ==
    (call.op = "get" /\ call.after_set) => call.ret = call.set_value

\* A signed field lying across a byte boundary, big-endian and MSB0, read back as -1
\* from a buffer that had other bits set.
C1_Witness ==
    /\ call.op = "get"
    /\ call.after_set
    /\ fs.byte_order = "BE"
    /\ fs.bit_order = "MSB0"
    /\ FieldNamed(fs, call.name).base_type \in SignedTypes
    /\ FieldSpansBytes(FieldNamed(fs, call.name))
    /\ call.ret = -1
    /\ \E i \in 1..Len(bits) : bits[i] \notin {0, 255}

\* C2: non-disturbance.  A setter call leaves every bit outside the field's
\* range [start, end) as it was, so the getter of every other field that does not
\* overlap it returns what it returned before the call.
C2_NonDisturbance ==
    [][call'.op = "set" =>
          LET f == FieldNamed(fs, call'.name)
          IN  /\ \A i \in 0..(8 * Len(bits) - 1) :
                    (i < f.address.start \/ i >= f.address.end)
                        => GetBit(bits', fs.bit_order, i) = GetBit(bits, fs.bit_order, i)
              /\ \A rf \in generated.tokens.read_functions :
                    (rf.end_bit <= f.address.start \/ rf.start_bit >= f.address.end)
                        => read_body(rf, bits') = read_body(rf, bits)]_vars

\* A setter has changed its field in a buffer whose other fields hold set bits.
C2_Witness ==
    /\ call.op = "set"
    /\ call.name = "f"
    /\ fs.bit_order = "MSB0"
    /\ FieldSpansBytes(FieldNamed(fs, "f"))
    /\ call.value = 0
    /\ \E rf \in generated.tokens.read_functions : rf.name = "lo" /\ read_body(rf, bits) > 1

DeviceMemoryLen == 128

\* register Foo as declared: little-endian, LSB0, 24 bits.
FooFieldSet == FieldSet("LE", "LSB0", 24, Zeros(3), <<>>, FooFields("RW"))

\* $register_size
RegisterSize == div_ceil(FooFieldSet.size_bits, 8)

\* DeviceInterface::read_register: the bytes copied into `data`.
read_register(memory, address, len) ==
    [i \in 1..len |-> memory[address + i]]

write_register_next_address(memory, address, data) ==
    [i \in 1..Len(memory) |->
        IF i > address + 1 /\ i <= address + 1 + Len(data) THEN data[i - address - 1]
        ELSE memory[i]]

\* DeviceInterface::write_register: the memory after copy_from_slice.
write_register(memory, address, data) ==
    [i \in 1..Len(memory) |->
        IF i > address /\ i <= address + Len(data) THEN data[i - address] ELSE memory[i]]

\* The methods each arm of implement_reg_accessor! defines.
accessor_methods(access) ==
    CASE access = "RO" -> {"read"}
      [] access = "WO" -> {"write"}
      [] access = "RW" -> {"read", "write", "modify"}

\* The closures handed to write and modify: each a chain of setter calls.
Closures == {"keep", "set_value_1", "set_value_0_and_2"}

closure_setters(f) ==
    CASE f = "keep" -> <<>>
      [] f = "set_value_1" -> <<[name |-> "value_1", value |-> 12345]>>
      [] f = "set_value_0_and_2" ->
            <<[name |-> "value_0", value |-> TRUE], [name |-> "value_2", value |-> -1]>>

RECURSIVE apply_setters(_, _, _)
apply_setters(tokens, setters, w) ==
    IF setters = <<>> THEN w
    ELSE LET wf == CHOOSE x \in tokens.write_functions : x.name = Head(setters).name
         IN  apply_setters(tokens, Tail(setters), write_body(wf, w, Head(setters).value))

\* f(w): the value the closure returns for the writable value w.
apply_closure(f, w) == apply_setters(generated.tokens, closure_setters(f), w)

\* R::zero() / W::zero()
zero == Zeros(RegisterSize)

modify_w_zero(r) == Zeros(Len(r))

\* The `?` on an interface call: an interface error becomes HardwareError.
from(ok) == IF ok THEN "none" ELSE "HardwareError"

\* modify: the writable value handed to the closure, W(r.0.clone()).
modify_w(r) == r

\* write: the writable value handed to the closure, W::zero(); write_w_ones
\* hands it a value with every bit set.
write_w_ones == [i \in 1..RegisterSize |-> 255]
write_w == zero

ReadCall(address, ok, data) ==
    [fn |-> "read_register", address |-> address, ok |-> ok, data |-> data]
WriteCall(address, ok, data) ==
    [fn |-> "write_register", address |-> address, ok |-> ok, data |-> data]

InitReg ==
    /\ device_memory = Zeros(DeviceMemoryLen)
    /\ reg \in {[access |-> "RW", address |-> 0], [access |-> "RW", address |-> 5],
                [access |-> "RO", address |-> 0], [access |-> "WO", address |-> 5]}
    /\ calls = <<>>
    /\ op = [name |-> "none"]
    /\ hist = <<>>
    /\ fs = FooFieldSet
    /\ generated = [state |-> "done", tokens |-> generate_field_set(FooFieldSet)]
    /\ bits = <<>>
    /\ call = [op |-> "none"]
    /\ ResIdle
    /\ ParseIdle
    /\ SpiIdle
    /\ MaskIdle

\* read: one read_register into a zeroed R; an interface error becomes HardwareError.
Read ==
    /\ "read" \in accessor_methods(reg.access)
    /\ Len(hist) < MaxOps
    /\ \E ok \in BOOLEAN :
          LET r == IF ok THEN read_register(device_memory, reg.address, RegisterSize) ELSE zero
          IN  /\ calls' = <<ReadCall(reg.address, ok, r)>>
              /\ op' = [name |-> "read", f |-> "none", ok |-> ok, err |-> from(ok), value |-> r]
              /\ hist' = IF ok THEN Append(hist, <<"read", "none">>) ELSE hist
    /\ UNCHANGED <<device_memory, reg, fsVars, resVars, parseVars, spiVars, maskVars>>

\* write: the closure gets W::zero(), its result goes to one write_register.
Write ==
    /\ "write" \in accessor_methods(reg.access)
    /\ Len(hist) < MaxOps
    /\ \E f \in Closures, ok \in BOOLEAN :
          LET w == apply_closure(f, write_w)
          IN  /\ calls' = <<WriteCall(reg.address, ok, w)>>
              /\ device_memory' = IF ok THEN write_register(device_memory, reg.address, w)
                                  ELSE device_memory
              /\ op' = [name |-> "write", f |-> f, ok |-> ok, err |-> from(ok), value |-> w]
              /\ hist' = IF ok THEN Append(hist, <<"write", f>>) ELSE hist
    /\ UNCHANGED <<reg, fsVars, resVars, parseVars, spiVars, maskVars>>

\* modify: read, hand the closure a copy of what was read, write its result.
Modify ==
    /\ "modify" \in accessor_methods(reg.access)
    /\ Len(hist) < MaxOps
    /\ \E f \in Closures, read_ok \in BOOLEAN, write_ok \in BOOLEAN :
          LET r == read_register(device_memory, reg.address, RegisterSize)
              w == apply_closure(f, modify_w(r))
          IN  IF ~read_ok
              THEN /\ calls' = <<ReadCall(reg.address, FALSE, zero)>>
                   /\ op' = [name |-> "modify", f |-> f, ok |-> FALSE, err |-> from(FALSE),
                               value |-> zero]
                   /\ UNCHANGED <<device_memory, hist>>
              ELSE /\ calls' = <<ReadCall(reg.address, TRUE, r),
                                 WriteCall(reg.address, write_ok, w)>>
                   /\ device_memory' = IF write_ok
                                       THEN write_register(device_memory, reg.address, w)
                                       ELSE device_memory
                   /\ op' = [name |-> "modify", f |-> f, ok |-> write_ok, err |-> from(write_ok),
                               value |-> w]
                   /\ hist' = IF write_ok THEN Append(hist, <<"modify", f>>) ELSE hist
    /\ UNCHANGED <<reg, fsVars, resVars, parseVars, spiVars, maskVars>>

NextReg ==
    \/ Read
    \/ Write
    \/ Modify

SpecReg == InitReg /\ [][NextReg]_vars

\* The three field values of a Foo value, by its generated getters.
FooValues(data) ==
    LET get(name) == read_body(CHOOSE rf \in generated.tokens.read_functions : rf.name = name,
                               data)
    IN  <<get("value_0"), get("value_1"), get("value_2")>>

FooScenario ==
    <<<<"write", "set_value_1">>, <<"read", "none">>,
      <<"modify", "set_value_0_and_2">>, <<"read", "none">>>>

\* C3: on the 24-bit little-endian LSB0 register Foo (bool at 0..1, uint at
\* 1..16, int at 16..24) over device memory that starts all zero,
\* write(set uint := 12345) followed by read yields (false, 12345, 0), and then
\* modify(set bool := true, set int := -1) followed by read yields
\* (true, 12345, -1).
C3_Scenario ==
    (op.name = "read" /\ op.ok) =>
        /\ hist = SubSeq(FooScenario, 1, 2) => FooValues(op.value) = <<FALSE, 12345, 0>>
        /\ hist = FooScenario => FooValues(op.value) = <<TRUE, 12345, -1>>

C3_Witness ==
    /\ reg = [access |-> "RW", address |-> 0]
    /\ hist = FooScenario
    /\ op.name = "read"
    /\ op.ok
    /\ FooValues(op.value) = <<TRUE, 12345, -1>>

\* C4: modify exists only on an RW register (an RO register has only read, a WO
\* register only write); a modify call makes exactly one read_register and then,
\* if that succeeded, exactly one write_register at the same address whose bytes
\* are the closure's result for a copy of the bytes just read; if the read fails
\* the result is HardwareError and no write_register call is made.
C4_Modify ==
    /\ reg.access = "RO" => op.name \in {"none", "read"}
    /\ reg.access = "WO" => op.name \in {"none", "write"}
    /\ op.name = "modify" =>
          /\ reg.access = "RW"
          /\ calls[1].fn = "read_register"
          /\ calls[1].address = reg.address
          /\ IF calls[1].ok
             THEN /\ Len(calls) = 2
                  /\ calls[2] = WriteCall(reg.address, op.ok,
                                          apply_closure(op.f, calls[1].data))
             ELSE /\ Len(calls) = 1
                  /\ ~op.ok
                  /\ op.err = "HardwareError"

C4_Witness ==
    /\ op.name = "modify"
    /\ op.ok
    /\ op.f = "set_value_0_and_2"
    /\ reg.address = 5
    /\ Len(calls) = 2
    /\ FooValues(calls[1].data) = <<FALSE, 12345, 0>>
    /\ FooValues(calls[2].data) = <<TRUE, 12345, -1>>

(***************************************************************************)
(* The resolver of dsl_hir_mir_transform.rs: transform(dsl_hir::Device).   *)
(***************************************************************************)
\* Largest bit number written in a field address.
MaxBit == 3
\* Longest config block enumerated entry by entry.
MaxConfigs == 3

\* Option<T>
None == <<>>
Some(x) == <<x>>
\* unwrap_or that ignores the explicit value.
unwrap_or_default_only(o, d) == d
unwrap_or(o, d) == IF o = None THEN d ELSE o[1]

\* Result<T, syn::Error>: an error is its message, with _ and n for the values
\* formatted into it, and those values.
Ok(v) == [ok |-> TRUE, value |-> v]
Err(msg, args) == [ok |-> FALSE, err |-> [msg |-> msg, args |-> args]]

\* todo!()
Todo == Err("not yet implemented", <<"panic">>)

IntegerOf ==
    [u8 |-> "U8", u16 |-> "U16", u32 |-> "U32", u64 |-> "U64", u128 |-> "U128",
     i8 |-> "I8", i16 |-> "I16", i32 |-> "I32", i64 |-> "I64", i128 |-> "I128"]

\* impl TryFrom<syn::Ident> for mir::Integer
Integer_try_from(value) ==
    IF value \in DOMAIN IntegerOf THEN Ok(IntegerOf[value])
    ELSE Err("Must be an integer type", <<>>)

\* mir::GlobalConfig::default(): the defaults are kept symbolic.
GlobalConfigDefault ==
    [default_register_access |-> "Access::default()",
     default_field_access |-> "Access::default()",
     default_buffer_access |-> "Access::default()",
     default_byte_order |-> "ByteOrder::default()",
     default_bit_order |-> "BitOrder::default()",
     register_address_type |-> None,
     command_address_type |-> None,
     buffer_address_type |-> None,
     name_case |-> "NameCase::default()"]

\* std::mem::discriminant of a dsl_hir::GlobalConfig
discriminant(config) == config.kind

same_config_count_by_value(configs, config) ==
    Cardinality({j \in 1..Len(configs) : configs[j] = config})

same_config_count(configs, config) ==
    Cardinality({j \in 1..Len(configs) : discriminant(configs[j]) = discriminant(config)})

\* `global_config.<address type> = Some(value.try_into()?)`
set_address_type(global_config, kind, integer) ==
    IF ~integer.ok THEN integer
    ELSE CASE kind = "RegisterAddressType" ->
                Ok([global_config EXCEPT !.register_address_type = Some(integer.value)])
           [] kind = "CommandAddressType" ->
                Ok([global_config EXCEPT !.command_address_type = Some(integer.value)])
           [] kind = "BufferAddressType" ->
                Ok([global_config EXCEPT !.buffer_address_type = Some(integer.value)])

\* The match on one config entry.
set_config(global_config, config) ==
    CASE config.kind = "DefaultRegisterAccess" ->
            Ok([global_config EXCEPT !.default_register_access = config.value])
      [] config.kind = "DefaultFieldAccess" ->
            Ok([global_config EXCEPT !.default_field_access = config.value])
      [] config.kind = "DefaultBufferAccess" ->
            Ok([global_config EXCEPT !.default_buffer_access = config.value])
      [] config.kind = "DefaultByteOrder" ->
            Ok([global_config EXCEPT !.default_byte_order = config.value])
      [] config.kind = "DefaultBitOrder" ->
            Ok([global_config EXCEPT !.default_bit_order = config.value])
      [] config.kind \in {"RegisterAddressType", "CommandAddressType", "BufferAddressType"} ->
            set_address_type(global_config, config.kind, Integer_try_from(config.value))
      [] config.kind = "NameCase" ->
            Ok([global_config EXCEPT !.name_case = config.value])

RECURSIVE global_config_loop(_, _, _)

\* The `?` of one iteration: stop at an error, else go on with the next entry.
global_config_next(configs, i, r) ==
    IF r.ok THEN global_config_loop(configs, i + 1, r.value) ELSE r

\* `for config in value.configs.iter()`
global_config_loop(configs, i, global_config) ==
    IF i > Len(configs) THEN Ok(global_config)
    ELSE IF same_config_count(configs, configs[i]) > 1
    THEN Err("Duplicate global config found", <<configs[i]>>)
    ELSE global_config_next(configs, i, set_config(global_config, configs[i]))

\* impl TryFrom<dsl_hir::GlobalConfigList> for mir::GlobalConfig
GlobalConfig_try_from(value) == global_config_loop(value.configs, 1, GlobalConfigDefault)

IsDoc(attr) == attr.kind = "Doc"
IsCfg(attr) == attr.kind = "Cfg"
Vals(attributes) == [i \in 1..Len(attributes) |-> attributes[i].val]

\* [&str]::join(sep); join_reversed writes the elements from the last one down.
join_reversed(strs, sep) ==
    IF strs = <<>> THEN ""
    ELSE LET f[n \in 1..Len(strs)] ==
                 IF n = Len(strs) THEN strs[n] ELSE f[n + 1] \o sep \o strs[n]
         IN  f[1]
join(strs, sep) ==
    IF strs = <<>> THEN ""
    ELSE LET f[n \in 1..Len(strs)] ==
                 IF n = 1 THEN strs[1] ELSE f[n - 1] \o sep \o strs[n]
         IN  f[Len(strs)]

\* `if str.is_empty() { None } else { Some(str) }`
description_of(str) == IF str = "" THEN None ELSE Some(str)

get_description(attrs) == description_of(join(Vals(SelectSeq(attrs.attributes, IsDoc)), "\n"))

cfg_attr_of(cfg_attrs) ==
    CASE Len(cfg_attrs) = 0 -> Ok(None)
      [] Len(cfg_attrs) = 1 -> Ok(Some(cfg_attrs[1].val))
      [] OTHER -> Err("Only one cfg attribute is allowed, but n are found", <<Len(cfg_attrs)>>)

get_cfg_attr(attrs) == cfg_attr_of(SelectSeq(attrs.attributes, IsCfg))

\* iter().map(f).collect::<Result<_, _>>(): the first error, else all the values.
collect(r, rest) ==
    IF ~r.ok THEN r
    ELSE IF rest.ok THEN Ok(<<r.value>> \o rest.value)
    ELSE rest

\* result.map(Some)
map_some(r) == IF r.ok THEN Ok(Some(r.value)) ELSE r

variant_of(v, cfg_attr) ==
    IF ~cfg_attr.ok THEN cfg_attr
    ELSE Ok([cfg_attr |-> cfg_attr.value,
             description |-> unwrap_or(get_description(v.attribute_list), ""),
             name |-> v.identifier,
             value |-> IF v.enum_value = None
                       THEN [kind |-> "Unspecified", val |-> 0]
                       ELSE v.enum_value[1]])

\* One enum variant of transform_field_conversion.
transform_variant(v) == variant_of(v, get_cfg_attr(v.attribute_list))

RECURSIVE transform_variants(_)
transform_variants(variants) ==
    IF variants = <<>> THEN Ok(<<>>)
    ELSE collect(transform_variant(Head(variants)), transform_variants(Tail(variants)))

enum_of(field_conversion, variants) ==
    IF ~variants.ok THEN variants
    ELSE Ok([kind |-> "Enum", name |-> field_conversion.identifier,
             variants |-> variants.value])

transform_field_conversion(field_conversion) ==
    IF field_conversion.kind = "Direct"
    THEN Ok([kind |-> "Direct", name |-> field_conversion.path, variants |-> <<>>])
    ELSE enum_of(field_conversion,
                 transform_variants(field_conversion.enum_variant_list.variants))

is_bool(base_type) == base_type = "Bool"

\* start..end
Range(start, end) == [start |-> start, end |-> end]

transform_field_address_any_base_type(field) ==
    CASE field.field_address.kind = "Integer" ->
            Ok(Range(field.field_address.start, field.field_address.start))
      [] field.field_address.kind = "Range" ->
            Ok(Range(field.field_address.start, field.field_address.end))
      [] field.field_address.kind = "RangeInclusive" ->
            Ok(Range(field.field_address.start, field.field_address.end + 1))

\* u64::MAX, on a scale of 8 bits for 64.
u64_MAX == 255

\* `end + 1` on u64: the sum, and at u64::MAX a panic in a build with
\* overflow checks and the wrapped value 0 in a build without.
add_one(end) ==
    IF end < u64_MAX THEN Ok(end + 1)
    ELSE IF overflow_checks THEN Err("attempt to add with overflow", <<"panic">>)
    ELSE Ok((end + 1) % (u64_MAX + 1))

\* start..(end + 1)
range_to(start, end_plus_one) ==
    IF end_plus_one.ok THEN Ok(Range(start, end_plus_one.value)) ELSE end_plus_one

\* The match on field.field_address.
transform_field_address(field) ==
    CASE field.field_address.kind = "Integer" /\ is_bool(field.base_type) ->
            Ok(Range(field.field_address.start, field.field_address.start))
      [] field.field_address.kind = "Integer" ->
            Err("Field _ has a non-bool base type and must specify the start and the end address",
                <<field.identifier>>)
      [] field.field_address.kind = "Range" ->
            Ok(Range(field.field_address.start, field.field_address.end))
      [] field.field_address.kind = "RangeInclusive" ->
            range_to(field.field_address.start, add_one(field.field_address.end))

\* field.field_conversion.as_ref().map(transform_field_conversion).transpose()
field_conversion_of(field) ==
    IF field.field_conversion = None THEN Ok(None)
    ELSE map_some(transform_field_conversion(field.field_conversion[1]))

\* The struct expression of transform_field: its `?` in order.
field_of(field, global_config, cfg_attr, field_conversion, field_address) ==
    IF ~cfg_attr.ok THEN cfg_attr
    ELSE IF ~field_conversion.ok THEN field_conversion
    ELSE IF ~field_address.ok THEN field_address
    ELSE Ok([cfg_attr |-> cfg_attr.value,
             description |-> unwrap_or(get_description(field.attribute_list), ""),
             name |-> field.identifier,
             access |-> unwrap_or(field.access, global_config.default_field_access),
             base_type |-> field.base_type,
             field_conversion |-> field_conversion.value,
             field_address |-> field_address.value])

transform_field(field, global_config) ==
    field_of(field, global_config, get_cfg_attr(field.attribute_list),
             field_conversion_of(field), transform_field_address(field))

\* One call made while resolving, with what it returned.
Call(fn, arg, ret) == [fn |-> fn, arg |-> arg, ret |-> ret]

NoCalls(ret) == [ret |-> ret, log |-> <<>>]

\* collect over calls that are logged: the calls stop at the first error.
collect_calls(fn, arg, r, rest) ==
    IF ~r.ok THEN [ret |-> r, log |-> <<Call(fn, arg, r)>>]
    ELSE [ret |-> IF rest.ret.ok THEN Ok(<<r.value>> \o rest.ret.value) ELSE rest.ret,
          log |-> <<Call(fn, arg, r)>> \o rest.log]

\* fields.iter().map(transform_field).collect::<Result<_, _>>(), with the calls made.
RECURSIVE transform_fields(_, _)
transform_fields(fields, global_config) ==
    IF fields = <<>> THEN NoCalls(Ok(<<>>))
    ELSE collect_calls("transform_field", Head(fields),
                       transform_field(Head(fields), global_config),
                       transform_fields(Tail(fields), global_config))

\* The payload of a command item.
item_value(item) ==
    CASE item.kind \in {"Address", "SizeBitsIn", "SizeBitsOut"} -> item.lit
      [] item.kind \in {"ByteOrder", "BitOrder"} -> item.order
      [] item.kind \in {"AllowBitOverlap", "AllowAddressOverlap"} -> item.flag
      [] item.kind = "Repeat" -> item.repeat

first_of(found) == CHOOSE i \in found : \A j \in found : i <= j

\* items.iter().find_map(..): the payload of the first item of the kind.
find_item(items, kind) ==
    IF \A i \in 1..Len(items) : items[i].kind # kind THEN None
    ELSE Some(item_value(items[first_of({i \in 1..Len(items) : items[i].kind = kind})]))

command_address_or_zero(command_value) ==
    IF command_value.kind = "Basic" THEN Some(command_value.lit)
    ELSE Some(unwrap_or(find_item(command_value.command_item_list.items, "Address"), 0))

\* The address of a command value: the literal, or the ADDRESS item.
command_address(command_value) ==
    IF command_value.kind = "Basic" THEN Some(command_value.lit)
    ELSE find_item(command_value.command_item_list.items, "Address")

\* The in_fields / out_fields of a command value.
command_fields(command_value, field_list, global_config) ==
    IF command_value.kind = "Basic" \/ field_list = None THEN NoCalls(Ok(<<>>))
    ELSE transform_fields(field_list[1].fields, global_config)

\* The struct expression of transform_command: its `?` in order.
command_of(command, global_config, items, cfg_attr, address, in_fields, out_fields) ==
    IF ~cfg_attr.ok THEN NoCalls(cfg_attr)
    ELSE IF address = None
    THEN NoCalls(Err("Command _ must have an address", <<command.identifier>>))
    ELSE IF ~in_fields.ret.ok THEN in_fields
    ELSE IF ~out_fields.ret.ok
    THEN [ret |-> out_fields.ret, log |-> in_fields.log \o out_fields.log]
    ELSE [ret |-> Ok([cfg_attr |-> cfg_attr.value,
                      description |->
                          unwrap_or(get_description(command.attribute_list), ""),
                      name |-> command.identifier,
                      address |-> address[1],
                      byte_order |-> unwrap_or(find_item(items, "ByteOrder"),
                                               global_config.default_byte_order),
                      bit_order |-> unwrap_or(find_item(items, "BitOrder"),
                                              global_config.default_bit_order),
                      size_bits_in |-> unwrap_or(find_item(items, "SizeBitsIn"), 0),
                      size_bits_out |-> unwrap_or(find_item(items, "SizeBitsOut"), 0),
                      repeat |-> find_item(items, "Repeat"),
                      in_fields |-> in_fields.ret.value,
                      out_fields |-> out_fields.ret.value]),
          log |-> in_fields.log \o out_fields.log]

command_with_value(command, command_value, global_config) ==
    command_of(command, global_config, command_value.command_item_list.items,
               get_cfg_attr(command.attribute_list), command_address(command_value),
               command_fields(command_value, command_value.in_field_list, global_config),
               command_fields(command_value, command_value.out_field_list, global_config))

transform_command(command, global_config) ==
    IF command.value = None
    THEN NoCalls(Err("Command _ must have a value", <<command.identifier>>))
    ELSE command_with_value(command, command.value[1], global_config)

\* The struct expression of transform_buffer: its `?` in order.
buffer_of(buffer, global_config, cfg_attr) ==
    IF ~cfg_attr.ok THEN cfg_attr
    ELSE IF buffer.address = None
    THEN Err("Buffer _ must have an address", <<buffer.identifier>>)
    ELSE Ok([cfg_attr |-> cfg_attr.value,
             description |-> unwrap_or(get_description(buffer.attribute_list), ""),
             name |-> buffer.identifier,
             access |-> unwrap_or(buffer.access, global_config.default_buffer_access),
             address |-> buffer.address[1]])

transform_buffer(buffer, global_config) ==
    buffer_of(buffer, global_config, get_cfg_attr(buffer.attribute_list))

\* The override's in_fields / out_fields.
override_fields(extended, field_list, global_config) ==
    IF extended /\ field_list # None
    THEN transform_fields(field_list[1].fields, global_config)
    ELSE NoCalls(Ok(<<>>))

\* The struct expression of transform_command_override: its `?` in order.
command_override_of(command_override, extended, items, in_fields, out_fields) ==
    IF ~in_fields.ret.ok THEN in_fields
    ELSE IF ~out_fields.ret.ok
    THEN [ret |-> out_fields.ret, log |-> in_fields.log \o out_fields.log]
    ELSE [ret |-> Ok([name |-> command_override.identifier,
                      address |-> IF command_override.value = None THEN None
                                  ELSE IF extended THEN find_item(items, "Address")
                                  ELSE Some(command_override.value[1].lit),
                      byte_order |-> find_item(items, "ByteOrder"),
                      bit_order |-> find_item(items, "BitOrder"),
                      size_bits_in |-> find_item(items, "SizeBitsIn"),
                      size_bits_out |-> find_item(items, "SizeBitsOut"),
                      repeat |-> find_item(items, "Repeat"),
                      in_fields |->
                          IF extended /\ command_override.value[1].in_field_list # None
                          THEN Some(in_fields.ret.value) ELSE None,
                      out_fields |->
                          IF extended /\ command_override.value[1].out_field_list # None
                          THEN Some(out_fields.ret.value) ELSE None]),
          log |-> in_fields.log \o out_fields.log]

extended_override(command_override, command_value, global_config) ==
    command_override_of(command_override, TRUE, command_value.command_item_list.items,
                        override_fields(TRUE, command_value.in_field_list, global_config),
                        override_fields(TRUE, command_value.out_field_list, global_config))

\* An override whose byte order is filled from the global default.
transform_command_override_defaulted(command_override, global_config) ==
    IF command_override.value # None /\ command_override.value[1].kind = "Extended"
    THEN extended_override(command_override,
                           [command_override.value[1] EXCEPT
                               !.command_item_list.items =
                                   @ \o <<[kind |-> "ByteOrder", lit |-> 0,
                                           order |-> global_config.default_byte_order,
                                           flag |-> FALSE,
                                           repeat |-> [count |-> 0, stride |-> 0]]>>],
                           global_config)
    ELSE command_override_of(command_override, FALSE, <<>>, NoCalls(Ok(<<>>)),
                             NoCalls(Ok(<<>>)))

transform_command_override(command_override, global_config) ==
    IF command_override.value # None /\ command_override.value[1].kind = "Extended"
    THEN extended_override(command_override, command_override.value[1], global_config)
    ELSE command_override_of(command_override, FALSE, <<>>, NoCalls(Ok(<<>>)),
                             NoCalls(Ok(<<>>)))

\* Ok(mir::RefObject { .. }) around a resolved override.
ref_of(ref_object, cfg_attr, kind, override) ==
    IF ~override.ret.ok THEN override
    ELSE [ret |-> Ok([cfg_attr |-> cfg_attr.value,
                      description |->
                          unwrap_or(get_description(ref_object.attribute_list), ""),
                      name |-> ref_object.identifier,
                      object |-> [kind |-> kind, override |-> override.ret.value]]),
          log |-> override.log]

\* The match without its Object::Ref arm: a ref to a ref resolves.
ref_object_of_chained(ref_object, cfg_attr, global_config) ==
    IF ~cfg_attr.ok THEN NoCalls(cfg_attr)
    ELSE CASE ref_object.object.kind \in {"Block", "Register", "Buffer"} -> NoCalls(Todo)
           [] ref_object.object.kind = "Command" ->
                ref_of(ref_object, cfg_attr, "Command",
                       transform_command_override(ref_object.object, global_config))
           [] ref_object.object.kind = "Ref" ->
                ref_of(ref_object, cfg_attr, "Ref", NoCalls(Ok(ref_object.object.identifier)))

\* The match on *ref_object.object.
ref_object_of(ref_object, cfg_attr, global_config) ==
    IF ~cfg_attr.ok THEN NoCalls(cfg_attr)
    ELSE CASE ref_object.object.kind \in {"Block", "Register", "Buffer"} -> NoCalls(Todo)
           [] ref_object.object.kind = "Command" ->
                ref_of(ref_object, cfg_attr, "Command",
                       transform_command_override(ref_object.object, global_config))
           [] ref_object.object.kind = "Ref" ->
                NoCalls(Err("Ref _ cannot ref another ref object", <<ref_object.identifier>>))

transform_ref(ref_object, global_config) ==
    ref_object_of(ref_object, get_cfg_attr(ref_object.attribute_list), global_config)

\* mir::Object::<kind>(transform_<kind>(..)?), with the call logged.
object_of(kind, fn, object, r) ==
    [ret |-> IF r.ret.ok THEN Ok([kind |-> kind, object |-> r.ret.value]) ELSE r.ret,
     log |-> r.log \o <<Call(fn, object, r.ret)>>]

\* The match on one object of transform_object_list.
transform_object(object, global_config) ==
    CASE object.kind \in {"Block", "Register"} -> NoCalls(Todo)
      [] object.kind = "Command" ->
            object_of("Command", "transform_command", object,
                      transform_command(object, global_config))
      [] object.kind = "Buffer" ->
            object_of("Buffer", "transform_buffer", object,
                      NoCalls(transform_buffer(object, global_config)))
      [] object.kind = "Ref" ->
            object_of("Ref", "transform_ref", object, transform_ref(object, global_config))

\* The loop that goes on after an error and returns the last one.
push_object_last_error(r, rest) ==
    IF ~rest.ret.ok THEN [ret |-> rest.ret, log |-> r.log \o rest.log]
    ELSE IF ~r.ret.ok THEN r
    ELSE [ret |-> Ok(<<r.ret.value>> \o rest.ret.value), log |-> r.log \o rest.log]

\* `for object in list.objects`: stop at the first error.
push_object(r, rest) ==
    IF ~r.ret.ok THEN r
    ELSE [ret |-> IF rest.ret.ok THEN Ok(<<r.ret.value>> \o rest.ret.value) ELSE rest.ret,
          log |-> r.log \o rest.log]

RECURSIVE transform_object_list(_, _)
transform_object_list(objects, global_config) ==
    IF objects = <<>> THEN NoCalls(Ok(<<>>))
    ELSE push_object(transform_object(Head(objects), global_config),
                     transform_object_list(Tail(objects), global_config))

device_of(global_config, objects) ==
    IF ~objects.ret.ok THEN objects
    ELSE [ret |-> Ok([global_config |-> global_config, objects |-> objects.ret.value]),
          log |-> objects.log]

transform_objects(d, global_config) ==
    IF ~global_config.ok THEN NoCalls(global_config)
    ELSE device_of(global_config.value,
                   transform_object_list(d.object_list.objects, global_config.value))

transform(d) == transform_objects(d, GlobalConfig_try_from(d.global_config_list))

(***************************************************************************)
(* The devices given to transform: what the parser of dsl_hir can produce. *)
(***************************************************************************)
Doc(val) == [kind |-> "Doc", val |-> val]
Cfg(val) == [kind |-> "Cfg", val |-> val]
AttributeList(attributes) == [attributes |-> attributes]

NoAttributes == AttributeList(<<>>)
OneCfg == AttributeList(<<Doc(" Hello world!"), Cfg("feature = foo"),
                          Doc(" This should be in order!")>>)
TwoCfg == AttributeList(<<Cfg("foo"), Cfg("too_many")>>)
AttributeLists == {NoAttributes, OneCfg, TwoCfg}

GlobalConfig(kind, value) == [kind |-> kind, value |-> value]
GlobalConfigList(configs) == [configs |-> configs]

ConfigEntries ==
    {GlobalConfig("DefaultRegisterAccess", "RW"), GlobalConfig("DefaultRegisterAccess", "RO"),
     GlobalConfig("DefaultFieldAccess", "RC"), GlobalConfig("DefaultByteOrder", "BE"),
     GlobalConfig("DefaultBitOrder", "MSB0"),
     GlobalConfig("RegisterAddressType", "i8"), GlobalConfig("RegisterAddressType", "foo"),
     GlobalConfig("BufferAddressType", "u32")}

\* The config block of tests::global_settings_correct.
AllSettings ==
    <<GlobalConfig("DefaultRegisterAccess", "RO"), GlobalConfig("DefaultFieldAccess", "RC"),
      GlobalConfig("DefaultBufferAccess", "WO"), GlobalConfig("DefaultByteOrder", "LE"),
      GlobalConfig("DefaultBitOrder", "MSB0"), GlobalConfig("RegisterAddressType", "i8"),
      GlobalConfig("CommandAddressType", "u128"), GlobalConfig("BufferAddressType", "u32"),
      GlobalConfig("NameCase", "Pascal")>>

ConfigLists ==
    UNION {[1..n -> ConfigEntries] : n \in 0..MaxConfigs}
    \cup {AllSettings, Append(AllSettings, GlobalConfig("NameCase", "Snake"))}

BaseTypes == {"Bool", "Uint", "Int"}

FieldAddress(kind, start, end) == [kind |-> kind, start |-> start, end |-> end]

FieldAddresses ==
    {FieldAddress("Integer", s, s) : s \in 0..MaxBit}
    \cup {FieldAddress(k, s, e) : k \in {"Range", "RangeInclusive"}, s \in 0..MaxBit,
                                  e \in 0..MaxBit}

EnumVariant(attribute_list, identifier, enum_value) ==
    [attribute_list |-> attribute_list, identifier |-> identifier, enum_value |-> enum_value]
EnumValue(kind, val) == [kind |-> kind, val |-> val]

Direct(path) ==
    [kind |-> "Direct", path |-> path, identifier |-> "", enum_variant_list |-> [variants |-> <<>>]]
Enum(identifier, variants) ==
    [kind |-> "Enum", path |-> "", identifier |-> identifier,
     enum_variant_list |-> [variants |-> variants]]

\* enum Val of tests::command, one whose second variant has two cfg attributes,
\* and one with two variants marked default.
FieldConversions ==
    {None,
     Some(Direct("crate::my_mod::MyStruct")),
     Some(Enum("Val", <<EnumVariant(NoAttributes, "One", None),
                        EnumVariant(AttributeList(<<Doc(" Two!")>>), "Two",
                                    Some(EnumValue("Specified", 2))),
                        EnumVariant(NoAttributes, "Three", Some(EnumValue("Default", 0))),
                        EnumVariant(AttributeList(<<Cfg("yes")>>), "Four",
                                    Some(EnumValue("CatchAll", 0)))>>)),
     Some(Enum("Val", <<EnumVariant(NoAttributes, "One", None),
                        EnumVariant(TwoCfg, "Two", None)>>)),
     Some(Enum("Val", <<EnumVariant(NoAttributes, "One", Some(EnumValue("Default", 0))),
                        EnumVariant(NoAttributes, "Two", Some(EnumValue("Default", 0))),
                        EnumVariant(NoAttributes, "Three", Some(EnumValue("CatchAll", 0)))>>))}

DslField(attribute_list, identifier, access, base_type, field_conversion, field_address) ==
    [attribute_list |-> attribute_list, identifier |-> identifier, access |-> access,
     base_type |-> base_type, field_conversion |-> field_conversion,
     field_address |-> field_address]
FieldList(fields) == [fields |-> fields]

\* Every base type with every address form, with and without too many cfg attributes.
AddressFields ==
    {DslField(al, "val", None, bt, None, fa) :
        al \in {NoAttributes, TwoCfg}, bt \in BaseTypes, fa \in FieldAddresses}

\* Every conversion and attribute list, on a range and on a single integer.
ConversionFields ==
    {DslField(al, "foo", access, "Uint", fc, fa) :
        al \in AttributeLists, access \in {None, Some("WO")}, fc \in FieldConversions,
        fa \in {FieldAddress("RangeInclusive", 1, MaxBit), FieldAddress("Integer", 0, 0)}}

SingleFieldLists == {<<f>> : f \in AddressFields \cup ConversionFields}

\* Two fields in one list: a uint on any range, then a field at any address.
PairFieldLists ==
    {<<DslField(NoAttributes, "a", None, "Uint", None, FieldAddress("Range", s, e)),
       DslField(NoAttributes, "b", None, bt, None, fa)>> :
        s \in 0..MaxBit, e \in 0..MaxBit, bt \in {"Bool", "Uint"}, fa \in FieldAddresses}

Repeat(count, stride) == [count |-> count, stride |-> stride]

\* A dsl_hir::CommandItem: the variant and its payload, in the field of its type.
CommandItem(kind, value) ==
    [kind |-> kind,
     lit |-> IF kind \in {"Address", "SizeBitsIn", "SizeBitsOut"} THEN value ELSE 0,
     order |-> IF kind \in {"ByteOrder", "BitOrder"} THEN value ELSE "",
     flag |-> IF kind \in {"AllowBitOverlap", "AllowAddressOverlap"} THEN value ELSE FALSE,
     repeat |-> IF kind = "Repeat" THEN value ELSE Repeat(0, 0)]

ItemLists ==
    {<<>>,
     <<CommandItem("Address", 10)>>,
     <<CommandItem("AllowBitOverlap", TRUE)>>,
     <<CommandItem("Repeat", Repeat(0, 16)), CommandItem("Address", 10)>>,
     <<CommandItem("SizeBitsIn", 32), CommandItem("SizeBitsOut", 16),
       CommandItem("Repeat", Repeat(4, 16)), CommandItem("Address", 10)>>,
     <<CommandItem("ByteOrder", "BE"), CommandItem("BitOrder", "LSB0"),
       CommandItem("Address", 10)>>}

OverlapItemLists ==
    {<<CommandItem("Address", 10)>>,
     <<CommandItem("Address", 10), CommandItem("AllowBitOverlap", FALSE)>>,
     <<CommandItem("Address", 10), CommandItem("AllowBitOverlap", TRUE)>>}

Basic(lit) ==
    [kind |-> "Basic", lit |-> lit, command_item_list |-> [items |-> <<>>],
     in_field_list |-> None, out_field_list |-> None]
Extended(items, in_field_list, out_field_list) ==
    [kind |-> "Extended", lit |-> 0, command_item_list |-> [items |-> items],
     in_field_list |-> in_field_list, out_field_list |-> out_field_list]

Command(attribute_list, identifier, value) ==
    [kind |-> "Command", attribute_list |-> attribute_list, identifier |-> identifier,
     value |-> value]
Buffer(attribute_list, identifier, access, address) ==
    [kind |-> "Buffer", attribute_list |-> attribute_list, identifier |-> identifier,
     access |-> access, address |-> address]
Register(attribute_list, identifier, register_items, fields) ==
    [kind |-> "Register", attribute_list |-> attribute_list, identifier |-> identifier,
     register_item_list |-> [register_items |-> register_items],
     field_list |-> FieldList(fields)]
Block(attribute_list, identifier, block_items, objects) ==
    [kind |-> "Block", attribute_list |-> attribute_list, identifier |-> identifier,
     block_item_list |-> [block_items |-> block_items], object_list |-> [objects |-> objects]]
RefObject(attribute_list, identifier, object) ==
    [kind |-> "Ref", attribute_list |-> attribute_list, identifier |-> identifier,
     object |-> object]

\* Commands without fields: no value, `= 5`, and braces around each item list.
ShapeCommands ==
    {Command(al, "Foo", v) :
        al \in AttributeLists,
        v \in {None, Some(Basic(5))} \cup {Some(Extended(il, None, None)) : il \in ItemLists}}

\* Commands with one field in the in list or in the out list.
FieldCommands ==
    {Command(NoAttributes, "Bar", Some(Extended(<<CommandItem("Address", 10)>>,
                                                 Some(FieldList(fl)), None))) :
        fl \in SingleFieldLists}
    \cup {Command(NoAttributes, "Bar", Some(Extended(<<CommandItem("Address", 10)>>,
                                                      None, Some(FieldList(fl))))) :
            fl \in SingleFieldLists}

\* Commands with two fields in one list, or one field in each list.
OverlapCommands ==
    {Command(NoAttributes, "Bar", Some(Extended(il, Some(FieldList(fl)), None))) :
        il \in OverlapItemLists, fl \in PairFieldLists}
    \cup {Command(NoAttributes, "Bar", Some(Extended(il, None, Some(FieldList(fl))))) :
            il \in OverlapItemLists, fl \in PairFieldLists}
    \cup {Command(NoAttributes, "Bar",
                  Some(Extended(<<CommandItem("Address", 10)>>, Some(FieldList(<<fl[1]>>)),
                                Some(FieldList(<<fl[2]>>))))) :
            fl \in PairFieldLists}

\* A documented command with two in-fields and a documented out-field.
OrderCommands ==
    {Command(OneCfg, "Second",
             Some(Extended(<<CommandItem("Address", 10)>>, Some(FieldList(fl)),
                           Some(FieldList(<<f>>))))) :
        fl \in {p \in PairFieldLists : /\ p[1].field_address = FieldAddress("Range", 0, 1)
                                       /\ p[2].field_address.kind = "Integer"
                                       /\ p[2].base_type = "Bool"},
        f \in {c \in ConversionFields : /\ c.attribute_list = OneCfg
                                        /\ c.access = None
                                        /\ c.field_address.kind = "RangeInclusive"}}

\* A command with a field whose inclusive range ends at u64::MAX.
OverflowCommands ==
    {Command(NoAttributes, "Bar",
             Some(Extended(<<CommandItem("Address", 10)>>,
                           Some(FieldList(<<DslField(NoAttributes, "val", None, bt, None,
                                                     FieldAddress("RangeInclusive", s,
                                                                  u64_MAX))>>)),
                           None))) :
        bt \in BaseTypes, s \in 0..MaxBit}

Buffers ==
    {Buffer(al, "Foo", access, address) :
        al \in AttributeLists, access \in {None, Some("RO")}, address \in {None, Some(5)}}

\* register Foo of tests/register-driver.rs, and one whose fields overlap.
Registers ==
    {Register(NoAttributes, "Foo", items,
              <<DslField(NoAttributes, "value0", None, "Bool", None,
                         FieldAddress("Range", 0, 1)),
                DslField(NoAttributes, "value1", None, "Uint", None,
                         FieldAddress("Range", start, 16))>>) :
        items \in OverlapItemLists, start \in {0, 1}}

Blocks == {Block(al, "Blk", <<>>, <<>>) : al \in AttributeLists}

RefObjects ==
    {RefObject(al, "Baz", object) :
        al \in {NoAttributes, TwoCfg},
        object \in {Command(NoAttributes, "Foo", None),
                    Command(NoAttributes, "Foo", Some(Basic(5))),
                    Command(NoAttributes, "Foo",
                            Some(Extended(<<>>, Some(FieldList(<<>>)), None))),
                    Buffer(NoAttributes, "Foo", None, Some(5)),
                    RefObject(NoAttributes, "Qux", Buffer(NoAttributes, "Foo", None, Some(5)))}
                   \cup Registers \cup Blocks}
    \cup {RefObject(NoAttributes, "Baz",
                    Command(NoAttributes, "Foo",
                            Some(Extended(<<>>, None, Some(FieldList(fl)))))) :
            fl \in {<<f>> : f \in ConversionFields}}
    \cup {RefObject(al, "Baz", Command(NoAttributes, "Foo", Some(Extended(il, None, None)))) :
            al \in {NoAttributes, OneCfg}, il \in ItemLists}

Objects ==
    ShapeCommands \cup FieldCommands \cup Buffers \cup Registers \cup Blocks \cup RefObjects

\* One object, or a buffer or command followed by a second object.
ObjectLists ==
    {<<>>} \cup {<<o>> : o \in Objects}
    \cup {<<o1, o2>> :
            o1 \in {Buffer(NoAttributes, "First", None, Some(1)),
                    Buffer(NoAttributes, "First", None, None),
                    Command(OneCfg, "First", Some(Basic(1)))},
            o2 \in ShapeCommands \cup Buffers \cup OrderCommands}

Device(configs, objects) ==
    [global_config_list |-> GlobalConfigList(configs), object_list |-> [objects |-> objects]]

OverflowDevices == {Device(<<>>, <<o>>) : o \in OverflowCommands}

Devices ==
    {Device(configs, objects) :
        configs \in ConfigLists,
        objects \in {<<>>, <<Buffer(NoAttributes, "Foo", None, Some(5))>>,
                     <<Buffer(NoAttributes, "Foo", None, None)>>}}
    \cup {Device(configs, objects) :
            configs \in {<<>>, <<GlobalConfig("DefaultByteOrder", "LE"),
                                 GlobalConfig("DefaultBitOrder", "MSB0"),
                                 GlobalConfig("DefaultFieldAccess", "RO"),
                                 GlobalConfig("DefaultBufferAccess", "WO")>>},
            objects \in ObjectLists}
    \cup {Device(<<>>, <<o>>) : o \in OverlapCommands}
    \cup OverflowDevices

FsIdle ==
    /\ fs = UnitFieldSet
    /\ generated = [state |-> "pending"]
    /\ bits = <<>>
    /\ call = [op |-> "none"]

InitResolve ==
    /\ device \in Devices
    /\ result = [state |-> "pending"]
    /\ overflow_checks \in IF device \in OverflowDevices THEN BOOLEAN ELSE {TRUE}
    /\ FsIdle
    /\ RegIdle
    /\ ParseIdle
    /\ SpiIdle
    /\ MaskIdle

\* transform(device)
Transform ==
    /\ result.state = "pending"
    /\ result' = [state |-> "done"] @@ transform(device)
    /\ UNCHANGED <<device, overflow_checks, fsVars, regVars, parseVars, spiVars, maskVars>>

NextResolve == Transform

SpecResolve == InitResolve /\ [][NextResolve]_vars

(***************************************************************************)
(* Claims about the resolver.                                              *)
(***************************************************************************)
Done == result.state = "done"

\* The calls of one function that resolving made.
CallsOf(fn) == {k \in 1..Len(result.log) : result.log[k].fn = fn}

CfgCount(attrs) == Len(SelectSeq(attrs.attributes, IsCfg))

\* The bit ranges [s1, e1) and [s2, e2) share a bit.
Intersect(r1, r2) == Max(r1.start, r2.start) < Min(r1.end, r2.end)

\* Two fields of the list resolve and their bit ranges share a bit.
OverlapIn(field_list) ==
    /\ field_list # None
    /\ \E i, j \in 1..Len(field_list[1].fields) :
          /\ i < j
          /\ transform_field_address(field_list[1].fields[i]).ok
          /\ transform_field_address(field_list[1].fields[j]).ok
          /\ Intersect(transform_field_address(field_list[1].fields[i]).value,
                       transform_field_address(field_list[1].fields[j]).value)

HasOverlap(command) ==
    /\ command.value # None
    /\ command.value[1].kind = "Extended"
    /\ OverlapIn(command.value[1].in_field_list) \/ OverlapIn(command.value[1].out_field_list)

AllowsBitOverlap(command) ==
    find_item(command.value[1].command_item_list.items, "AllowBitOverlap") = Some(TRUE)

\* C6: resolving a command whose in-field or out-field list holds two fields
\* with overlapping bit ranges fails when the command does not set
\* ALLOW_BIT_OVERLAP to true, and succeeds when it does.
C6_OverlapRejection ==
    Done => \A k \in CallsOf("transform_command") :
                HasOverlap(result.log[k].arg) =>
                    (result.log[k].ret.ok <=> AllowsBitOverlap(result.log[k].arg))

KindCount(configs, kind) == Cardinality({j \in 1..Len(configs) : configs[j].kind = kind})

DuplicateKinds(configs) == {i \in 1..Len(configs) : KindCount(configs, configs[i].kind) > 1}

\* Entries that name an address type that is no integer type.
NotInteger(configs) ==
    {i \in 1..Len(configs) :
        /\ configs[i].kind \in {"RegisterAddressType", "CommandAddressType",
                                "BufferAddressType"}
        /\ configs[i].value \notin DOMAIN IntegerOf}

\* The value of the one entry of the kind, or the default.
EntryOr(configs, kind, default) ==
    IF KindCount(configs, kind) = 0 THEN default
    ELSE configs[CHOOSE i \in 1..Len(configs) : configs[i].kind = kind].value

IntegerEntryOr(configs, kind) ==
    IF KindCount(configs, kind) = 0 THEN None
    ELSE Some(IntegerOf[EntryOr(configs, kind, "")])

\* Each GlobalConfig field is the value of its entry, or the built-in default.
EntriesOrDefaults(configs, global_config) ==
    /\ global_config.default_register_access =
          EntryOr(configs, "DefaultRegisterAccess", GlobalConfigDefault.default_register_access)
    /\ global_config.default_field_access =
          EntryOr(configs, "DefaultFieldAccess", GlobalConfigDefault.default_field_access)
    /\ global_config.default_buffer_access =
          EntryOr(configs, "DefaultBufferAccess", GlobalConfigDefault.default_buffer_access)
    /\ global_config.default_byte_order =
          EntryOr(configs, "DefaultByteOrder", GlobalConfigDefault.default_byte_order)
    /\ global_config.default_bit_order =
          EntryOr(configs, "DefaultBitOrder", GlobalConfigDefault.default_bit_order)
    /\ global_config.register_address_type = IntegerEntryOr(configs, "RegisterAddressType")
    /\ global_config.command_address_type = IntegerEntryOr(configs, "CommandAddressType")
    /\ global_config.buffer_address_type = IntegerEntryOr(configs, "BufferAddressType")
    /\ global_config.name_case = EntryOr(configs, "NameCase", GlobalConfigDefault.name_case)

IsDuplicateError(ret) == ~ret.ok /\ ret.err.msg = "Duplicate global config found"

\* C7 as stated: a config block with two or more entries of one kind fails with
\* 'Duplicate global config found', whatever their values; a block with at most
\* one entry per kind never gives that error; on success each GlobalConfig field
\* is the value of its entry or the built-in default.
C7_DuplicateGlobalConfig ==
    Done =>
        LET configs == device.global_config_list.configs
        IN  /\ DuplicateKinds(configs) # {} => IsDuplicateError(result.ret)
            /\ DuplicateKinds(configs) = {} => ~IsDuplicateError(result.ret)
            /\ result.ret.ok => EntriesOrDefaults(configs, result.ret.value.global_config)

\* C7 amended: a config block with two or more entries of one kind fails,
\* whatever their values: with 'Must be an integer type' when an address-type
\* entry with a non-integer name comes before the first entry whose kind is
\* repeated, and otherwise with 'Duplicate global config found' for that first
\* entry; a block with at most one entry per kind never gives the duplicate
\* error; on success each GlobalConfig field is the value of its entry or the
\* built-in default.
C7_DuplicateOrNotInteger ==
    Done =>
        LET configs == device.global_config_list.configs
            dup == DuplicateKinds(configs)
        IN  /\ dup # {} =>
                  /\ ~result.ret.ok
                  /\ IF \E b \in NotInteger(configs) : \A i \in dup : b < i
                     THEN result.ret.err.msg = "Must be an integer type"
                     ELSE /\ IsDuplicateError(result.ret)
                          /\ result.ret.err.args = <<configs[first_of(dup)]>>
            /\ dup = {} => ~IsDuplicateError(result.ret)
            /\ result.ret.ok => EntriesOrDefaults(configs, result.ret.value.global_config)

C7_Witness ==
    /\ Done
    /\ \E i, j \in DuplicateKinds(device.global_config_list.configs) :
          /\ i < j
          /\ device.global_config_list.configs[i].kind =
                device.global_config_list.configs[j].kind
          /\ device.global_config_list.configs[i].value #
                device.global_config_list.configs[j].value
    /\ NotInteger(device.global_config_list.configs) = {}
    /\ IsDuplicateError(result.ret)

\* The error is the one that names the object.
Names(ret, msg, identifier) ==
    /\ ~ret.ok
    /\ ret.err.msg = msg
    /\ ret.err.args = <<identifier>>

NamesObject(ret, identifier) ==
    /\ ~ret.ok
    /\ ret.err.msg \in {"Buffer _ must have an address", "Command _ must have a value",
                        "Command _ must have an address"}
    /\ ret.err.args = <<identifier>>

IsCfgError(ret) ==
    ~ret.ok /\ ret.err.msg = "Only one cfg attribute is allowed, but n are found"

IsBasic(command) == command.value # None /\ command.value[1].kind = "Basic"

NoAddressItem(command) ==
    /\ command.value # None
    /\ command.value[1].kind = "Extended"
    /\ find_item(command.value[1].command_item_list.items, "Address") = None

IsShorthand(field) == field.field_address.kind = "Integer"

\* The field's conversion resolves: no enum variant has two cfg attributes.
ConversionResolves(field) ==
    \/ field.field_conversion = None
    \/ \A i \in 1..Len(field.field_conversion[1].enum_variant_list.variants) :
          CfgCount(field.field_conversion[1].enum_variant_list.variants[i].attribute_list) <= 1

ShapeError == "Field _ has a non-bool base type and must specify the start and the end address"

EndsBelowMax(field) ==
    field.field_address.kind = "RangeInclusive" => field.field_address.end < u64_MAX

C10_RangeNonEmpty ==
    Done => \A k \in CallsOf("transform_field") :
                LET field == result.log[k].arg
                    ret == result.log[k].ret
                    declared_end == IF field.field_address.kind = "RangeInclusive"
                                    THEN field.field_address.end + 1
                                    ELSE field.field_address.end
                IN  /\ ret.ok => ret.value.field_address.end > ret.value.field_address.start
                    /\ (ret.ok /\ IsShorthand(field)) =>
                          ret.value.field_address.end = ret.value.field_address.start + 1
                    /\ (~IsShorthand(field) /\ declared_end <= field.field_address.start) =>
                          ~ret.ok

\* Every field of the list ends inside a bit space of the given size.
FieldsInside(fields, size_bits) ==
    \A i \in 1..Len(fields) : fields[i].field_address.end <= size_bits

\* C11: in every resolved command each in-field ends at or before size_bits_in
\* and each out-field at or before size_bits_out; a command with a field that
\* reaches past that size, also on a side whose size is 0, fails to resolve.
C11_FieldContainment ==
    Done => \A k \in CallsOf("transform_command") :
                result.log[k].ret.ok =>
                    /\ FieldsInside(result.log[k].ret.value.in_fields,
                                    result.log[k].ret.value.size_bits_in)
                    /\ FieldsInside(result.log[k].ret.value.out_fields,
                                    result.log[k].ret.value.size_bits_out)

\* The value written on the object, or the default the device's config block
\* gives for the kind.
WrittenOr(written, kind, builtin) ==
    IF written # None THEN written[1]
    ELSE EntryOr(device.global_config_list.configs, kind, builtin)

ItemsOf(command) ==
    IF command.value[1].kind = "Extended" THEN command.value[1].command_item_list.items
    ELSE <<>>

\* C12: every resolved command has the byte order and bit order written on it,
\* or else the GlobalConfig default; every resolved field has its explicit
\* access, or else the global default field access; every resolved buffer has
\* its explicit access, or else the global default buffer access.
C12_Defaulting ==
    Done =>
        /\ \A k \in CallsOf("transform_command") :
              result.log[k].ret.ok =>
                  /\ result.log[k].ret.value.byte_order =
                        WrittenOr(find_item(ItemsOf(result.log[k].arg), "ByteOrder"),
                                  "DefaultByteOrder", GlobalConfigDefault.default_byte_order)
                  /\ result.log[k].ret.value.bit_order =
                        WrittenOr(find_item(ItemsOf(result.log[k].arg), "BitOrder"),
                                  "DefaultBitOrder", GlobalConfigDefault.default_bit_order)
        /\ \A k \in CallsOf("transform_field") :
              result.log[k].ret.ok =>
                  result.log[k].ret.value.access =
                      WrittenOr(result.log[k].arg.access, "DefaultFieldAccess",
                                GlobalConfigDefault.default_field_access)
        /\ \A k \in CallsOf("transform_buffer") :
              result.log[k].ret.ok =>
                  result.log[k].ret.value.access =
                      WrittenOr(result.log[k].arg.access, "DefaultBufferAccess",
                                GlobalConfigDefault.default_buffer_access)

\* A device whose config block sets the defaults resolves a buffer that writes
\* no access and a command that writes both orders.
C12_Witness ==
    /\ Done
    /\ KindCount(device.global_config_list.configs, "DefaultByteOrder") = 1
    /\ KindCount(device.global_config_list.configs, "DefaultBufferAccess") = 1
    /\ \E k \in CallsOf("transform_command") :
          /\ result.log[k].ret.ok
          /\ find_item(ItemsOf(result.log[k].arg), "ByteOrder") = Some("BE")
          /\ result.log[k].ret.value.byte_order = "BE"
          /\ result.log[k].ret.value.bit_order = "LSB0"
    /\ \E k \in CallsOf("transform_buffer") :
          /\ result.log[k].ret.ok
          /\ result.log[k].arg.access = None
          /\ result.log[k].ret.value.access = "WO"

RefError == "Ref _ cannot ref another ref object"

WrittenItem(command, kind) ==
    IF command.value = None THEN None ELSE find_item(ItemsOf(command), kind)

WrittenAddress(command) ==
    IF IsBasic(command) THEN Some(command.value[1].lit) ELSE WrittenItem(command, "Address")

\* The override records the field list exactly when the command writes one, with
\* one field per written field, under its name.
RecordsFields(recorded, written) ==
    IF written = None THEN recorded = None
    ELSE /\ recorded # None
         /\ Len(recorded[1]) = Len(written[1].fields)
         /\ \A i \in 1..Len(recorded[1]) : recorded[1][i].name = written[1].fields[i].identifier

WrittenFields(command, side) ==
    IF command.value = None \/ IsBasic(command) THEN None
    ELSE IF side = "in" THEN command.value[1].in_field_list
    ELSE command.value[1].out_field_list

\* Every property of the override is the one the command writes, or absent.
RecordsWritten(override, command) ==
    /\ override.address = WrittenAddress(command)
    /\ override.byte_order = WrittenItem(command, "ByteOrder")
    /\ override.bit_order = WrittenItem(command, "BitOrder")
    /\ override.size_bits_in = WrittenItem(command, "SizeBitsIn")
    /\ override.size_bits_out = WrittenItem(command, "SizeBitsOut")
    /\ override.repeat = WrittenItem(command, "Repeat")
    /\ RecordsFields(override.in_fields, WrittenFields(command, "in"))
    /\ RecordsFields(override.out_fields, WrittenFields(command, "out"))

AllAbsent(override) ==
    /\ override.address = None /\ override.byte_order = None /\ override.bit_order = None
    /\ override.size_bits_in = None /\ override.size_bits_out = None
    /\ override.repeat = None /\ override.in_fields = None /\ override.out_fields = None

\* C14 as stated: for a resolved ref to a command, every property the ref does
\* not write is absent in the override and every property it writes is recorded
\* with the written value; a ref whose command has no value resolves, with every
\* property absent.
C14_OverrideFallThrough ==
    Done => \A k \in CallsOf("transform_ref") :
                result.log[k].arg.object.kind = "Command" =>
                    /\ result.log[k].ret.ok =>
                          RecordsWritten(result.log[k].ret.value.object.override,
                                         result.log[k].arg.object)
                    /\ result.log[k].arg.object.value = None =>
                          /\ result.log[k].ret.ok
                          /\ AllAbsent(result.log[k].ret.value.object.override)

\* C14 amended: as stated, but the ref whose command has no value resolves, with
\* every property absent, when the ref has at most one cfg attribute; with two
\* or more it fails with 'Only one cfg attribute is allowed'.
C14_OverrideFallThroughAfterCfg ==
    Done => \A k \in CallsOf("transform_ref") :
                result.log[k].arg.object.kind = "Command" =>
                    /\ result.log[k].ret.ok =>
                          RecordsWritten(result.log[k].ret.value.object.override,
                                         result.log[k].arg.object)
                    /\ result.log[k].arg.object.value = None =>
                          IF CfgCount(result.log[k].arg.attribute_list) > 1
                          THEN IsCfgError(result.log[k].ret)
                          ELSE /\ result.log[k].ret.ok
                               /\ AllAbsent(result.log[k].ret.value.object.override)

\* Under a config block that sets the default byte order, a ref writes the
\* address only and its override has the address and no byte order.
C14_Witness ==
    /\ Done
    /\ KindCount(device.global_config_list.configs, "DefaultByteOrder") = 1
    /\ \E k \in CallsOf("transform_ref") :
          /\ result.log[k].arg.object.kind = "Command"
          /\ result.log[k].ret.ok
          /\ result.log[k].ret.value.object.override.address = Some(10)
          /\ result.log[k].ret.value.object.override.byte_order = None
          /\ result.log[k].ret.value.object.override.in_fields = None

\* The cfg tags an item carries, in order; doc attributes are not among them.
CfgTags(attrs) == Vals(SelectSeq(attrs.attributes, IsCfg))

\* No tag is retained for an item without one, and the one tag otherwise.
Retained(cfg_attr, attrs) ==
    /\ Len(CfgTags(attrs)) <= 1
    /\ cfg_attr = IF CfgTags(attrs) = <<>> THEN None ELSE Some(CfgTags(attrs)[1])

\* The error that states the number of cfg tags found on the item.
StatesCount(ret, attrs) ==
    /\ IsCfgError(ret)
    /\ ret.err.args = <<Len(CfgTags(attrs))>>

\* The item of one call obeys the tag count rule.
TagRule(arg, ret) ==
    /\ ret.ok => Retained(ret.value.cfg_attr, arg.attribute_list)
    /\ Len(CfgTags(arg.attribute_list)) >= 2 => StatesCount(ret, arg.attribute_list)

\* The enum variants of a resolved field obey it.
VariantRule(field, resolved) ==
    resolved.field_conversion # None /\ resolved.field_conversion[1].kind = "Enum" =>
        \A i \in 1..Len(resolved.field_conversion[1].variants) :
            Retained(resolved.field_conversion[1].variants[i].cfg_attr,
                     field.field_conversion[1].enum_variant_list.variants[i].attribute_list)

\* C15: for every item (object, field, enum variant) the resolver retains no tag
\* when the item carries none, exactly that tag when it carries one, and fails
\* with an error stating the number found when it carries two or more; doc
\* attributes do not count.
C15_CfgTagCount ==
    Done =>
        /\ \A k \in 1..Len(result.log) :
              /\ TagRule(result.log[k].arg, result.log[k].ret)
              /\ (result.log[k].fn = "transform_field" /\ result.log[k].ret.ok) =>
                    VariantRule(result.log[k].arg, result.log[k].ret.value)
        /\ (GlobalConfig_try_from(device.global_config_list).ok
            /\ device.object_list.objects # <<>>
            /\ Len(CfgTags(device.object_list.objects[1].attribute_list)) >= 2) =>
              StatesCount(result.ret, device.object_list.objects[1].attribute_list)

\* The objects that do not resolve on their own under the global config.
InvalidObjects(objects, global_config) ==
    {i \in 1..Len(objects) : ~transform_object(objects[i], global_config).ret.ok}

Least(S) == CHOOSE i \in S : \A j \in S : i <= j

\* The calls for top-level objects that resolving made.
ObjectCalls ==
    {k \in 1..Len(result.log) :
        result.log[k].fn \in {"transform_command", "transform_buffer", "transform_ref"}}

\* Resolving stopped at the first invalid object: its error is the result, with
\* no model beside it, and no later object was processed.
StoppedAt(objects, global_config, first) ==
    /\ result.ret = transform_object(objects[first], global_config).ret
    /\ DOMAIN result.ret = {"ok", "err"}
    /\ Cardinality(ObjectCalls) <= first
    /\ \A k \in ObjectCalls : \E i \in 1..first : result.log[k].arg = objects[i]

Panicked(ret) == ~ret.ok /\ ret.err.msg = Todo.err.msg

\* The error carries the declared identifier of an object or field that
\* resolving worked on.
CarriesIdentifier(ret) ==
    /\ ret.err.msg \in {"Command _ must have a value", "Command _ must have an address",
                        "Buffer _ must have an address", RefError, ShapeError}
    /\ \E k \in 1..Len(result.log) : ret.err.args = <<result.log[k].arg.identifier>>

\* C17: for every device the parser can produce, with any mix of block,
\* register, command, buffer and ref objects and ref targets, resolving returns
\* a model or an error that carries the declared identifier of the offending
\* object or field; it never ends without one of the two.
C17_Totality ==
    Done =>
        \/ result.ret.ok
        \/ /\ ~Panicked(result.ret)
           /\ GlobalConfig_try_from(device.global_config_list).ok =>
                 CarriesIdentifier(result.ret)

\* The variants of the resolved enum that carry the marker.
Marked(variants, marker) == {i \in 1..Len(variants) : variants[i].value.kind = marker}

\* C18: every enum conversion of a resolved model has at most one variant
\* marked default and at most one marked catch_all; a declaration with two
\* default variants or two catch_all variants fails to resolve.
C18_EnumMarkerUniqueness ==
    Done => \A k \in CallsOf("transform_field") :
                (/\ result.log[k].ret.ok
                 /\ result.log[k].ret.value.field_conversion # None
                 /\ result.log[k].ret.value.field_conversion[1].kind = "Enum") =>
                    /\ Cardinality(Marked(result.log[k].ret.value.field_conversion[1].variants,
                                          "Default")) <= 1
                    /\ Cardinality(Marked(result.log[k].ret.value.field_conversion[1].variants,
                                          "CatchAll")) <= 1

\* C19: every Repeat of a resolved model has count >= 1; a declaration
\* REPEAT = { count: 0, .. } yields no resolved object with zero instances.
C19_RepeatCountPositive ==
    Done =>
        /\ \A k \in CallsOf("transform_command") :
              (result.log[k].ret.ok /\ result.log[k].ret.value.repeat # None) =>
                  result.log[k].ret.value.repeat[1].count >= 1
        /\ \A k \in CallsOf("transform_ref") :
              (/\ result.log[k].ret.ok
               /\ result.log[k].ret.value.object.override.repeat # None) =>
                  result.log[k].ret.value.object.override.repeat[1].count >= 1

\* The ref reset overrides whose constructor has the name.
OverridesNamed(value, name) ==
    {i \in 1..Len(value.ref_reset_overrides) :
        "new_as_" \o to_case_snake[value.ref_reset_overrides[i][1]] = name}

\* C20: the generated type has a constructor new that yields the reset value R,
\* a constructor new_zero that yields all-zero bytes, and for each ref reset
\* override (name_i, R_i) one constructor named after name_i that yields R_i;
\* the ref constructors exist beside new and change nothing of what it yields.
C20_ResetConstructors ==
    HasType =>
        /\ Len(generated.tokens.ref_value_constructors) = Len(fs.ref_reset_overrides)
        /\ \A i \in 1..Len(fs.ref_reset_overrides) :
              \E j \in 1..Len(generated.tokens.ref_value_constructors) :
                  /\ OverridesNamed(fs, generated.tokens.ref_value_constructors[j].name) = {i}
                  /\ generated.tokens.ref_value_constructors[j].bits =
                        fs.ref_reset_overrides[i][2]
        /\ call.op = "new" => bits = fs.reset_value
        /\ call.op = "new_zero" =>
              /\ Len(bits) = (fs.size_bits + 7) \div 8
              /\ \A b \in 1..Len(bits) : bits[b] = 0
        /\ call.op = "new_as" =>
              \E i \in OverridesNamed(fs, call.name) : bits = fs.ref_reset_overrides[i][2]

\* The register with two refs: new_as_other_ref was called and gave the bytes
\* of OtherRef, which are not those of new or of MyRef.
C20_Witness ==
    /\ HasType
    /\ Len(fs.ref_reset_overrides) = 2
    /\ call.op = "new_as"
    /\ call.name = "new_as_other_ref"
    /\ bits = <<255, 0, 16>>
    /\ generated.tokens.new = <<1, 2, 3>>

\* The generator has emitted a type.
Emitted == generated.state = "done" /\ ~generated.tokens.empty

\* C21: the reset value of every sized object, and of every ref override of it,
\* is a byte array of exactly size_bytes elements; a reset array with another
\* element count is rejected before code is emitted.
C21_ResetValueLength ==
    Emitted =>
        /\ Len(generated.tokens.new) = (fs.size_bits + 7) \div 8
        /\ \A i \in 1..Len(generated.tokens.ref_value_constructors) :
              Len(generated.tokens.ref_value_constructors[i].bits) = (fs.size_bits + 7) \div 8

\* C22: for a field set with size_bits > 0 the byte length of the generated
\* buffer, of the array of its From/Into conversions and of new_zero is the
\* least n with 8 * n >= size_bits; a field set with size_bits = 0 generates no
\* type at all.
C22_ObjectSizing ==
    generated.state = "done" =>
        IF fs.size_bits = 0 THEN generated.tokens.empty
        ELSE /\ ~generated.tokens.empty
             /\ 8 * generated.tokens.size_bytes >= fs.size_bits
             /\ 8 * (generated.tokens.size_bytes - 1) < fs.size_bits
             /\ Len(generated.tokens.new_zero) = generated.tokens.size_bytes
             /\ call.op \in {"from", "new_zero"} =>
                   /\ 8 * Len(bits) >= fs.size_bits
                   /\ 8 * (Len(bits) - 1) < fs.size_bits

\* The 20 bit register of tests::field_set_correct got three bytes through From.
C22_Witness ==
    /\ Emitted
    /\ fs.size_bits = 20
    /\ generated.tokens.size_bytes = 3
    /\ call.op = "from"
    /\ Len(bits) = 3

\* The call ended in a returned error, not in a panic.
ReturnsError(ret) ==
    ~ret.ok /\ ret.err.msg \notin {"attempt to add with overflow", Todo.err.msg}

\* C23: for an inclusive range start..=end with end the maximum of the integer
\* type, resolving returns an error; a resolved end is never a wrapped value and
\* is always the declared end plus one.
C23_NoSilentWrap ==
    Done => \A k \in CallsOf("transform_field") :
                result.log[k].arg.field_address.kind = "RangeInclusive" =>
                    /\ result.log[k].arg.field_address.end = u64_MAX =>
                          ReturnsError(result.log[k].ret)
                    /\ result.log[k].ret.ok =>
                          result.log[k].ret.value.field_address.end =
                              result.log[k].arg.field_address.end + 1

\* The names of resolved items, and the identifiers of declared ones, in order.
ResolvedNames(items) == [i \in 1..Len(items) |-> items[i].name]
Identifiers(items) == [i \in 1..Len(items) |-> items[i].identifier]

\* The doc lines an item declares, in order.
DocLines(attrs) == Vals(SelectSeq(attrs.attributes, IsDoc))

\* A description is the declared doc lines with a newline between them.
Describes(description, attrs) ==
    CASE Len(DocLines(attrs)) = 0 -> description = ""
      [] Len(DocLines(attrs)) = 1 -> description = DocLines(attrs)[1]
      [] Len(DocLines(attrs)) = 2 ->
            description = DocLines(attrs)[1] \o "\n" \o DocLines(attrs)[2]

\* The fields a command declares on one side, in order.
DeclaredFields(command, side) ==
    IF WrittenFields(command, side) = None THEN <<>> ELSE WrittenFields(command, side)[1].fields

\* A resolved field list is the declared one, field by field and variant by variant.
FieldsInOrder(resolved, declared) ==
    /\ ResolvedNames(resolved) = Identifiers(declared)
    /\ \A i \in 1..Len(resolved) :
          /\ Describes(resolved[i].description, declared[i].attribute_list)
          /\ declared[i].field_conversion # None /\ declared[i].field_conversion[1].kind = "Enum"
                => ResolvedNames(resolved[i].field_conversion[1].variants)
                       = Identifiers(declared[i].field_conversion[1].enum_variant_list.variants)

\* C26: on success the resolver outputs the objects in the order declared, each
\* command's in-fields and out-fields and each enum's variants in the order
\* declared, and each description as the doc lines joined by newline in the
\* order declared: nothing is reordered, dropped or duplicated.
C26_DeclarationOrder ==
    Done /\ result.ret.ok =>
        /\ ResolvedNames([i \in 1..Len(result.ret.value.objects) |->
                      result.ret.value.objects[i].object])
               = Identifiers(device.object_list.objects)
        /\ \A i \in 1..Len(result.ret.value.objects) :
              /\ Describes(result.ret.value.objects[i].object.description,
                           device.object_list.objects[i].attribute_list)
              /\ result.ret.value.objects[i].kind = "Command"
                    => /\ FieldsInOrder(result.ret.value.objects[i].object.in_fields,
                                        DeclaredFields(device.object_list.objects[i], "in"))
                       /\ FieldsInOrder(result.ret.value.objects[i].object.out_fields,
                                        DeclaredFields(device.object_list.objects[i], "out"))

\* Two objects resolved, the first with two doc lines around a cfg attribute,
\* the second a command with two in-fields and an out-field of three variants.
C26_Witness ==
    /\ Done
    /\ result.ret.ok
    /\ Len(result.ret.value.objects) = 2
    /\ Len(DocLines(device.object_list.objects[1].attribute_list)) = 2
    /\ CfgCount(device.object_list.objects[1].attribute_list) = 1
    /\ result.ret.value.objects[2].kind = "Command"
    /\ Len(result.ret.value.objects[2].object.in_fields) = 2
    /\ Len(result.ret.value.objects[2].object.out_fields) = 1
    /\ result.ret.value.objects[2].object.out_fields[1].field_conversion # None
    /\ Len(result.ret.value.objects[2].object.out_fields[1].field_conversion[1].variants) = 3

(***************************************************************************)
(* Claims about write of the register accessor.                            *)
(***************************************************************************)
\* The field values a closure leaves in a value that was all zero before.
SetFromZero(f) ==
    CASE f = "keep" -> <<FALSE, 0, 0>>
      [] f = "set_value_1" -> <<FALSE, 12345, 0>>
      [] f = "set_value_0_and_2" -> <<TRUE, 0, -1>>

\* C27: a write(f) call on a WO or RW register passes an all-zero value to f and
\* makes exactly one write_register call with f's result at the register's
\* address and no read_register call; every field f does not set is written as
\* 0 whatever the register holds, and a failing write_register is returned as
\* HardwareError.
C27_WriteFromZero ==
    op.name = "write" =>
        /\ reg.access \in {"WO", "RW"}
        /\ Len(calls) = 1
        /\ calls[1].fn = "write_register"
        /\ calls[1].address = reg.address
        /\ calls[1].ok = op.ok
        /\ FooValues(calls[1].data) = SetFromZero(op.f)
        /\ op.f = "keep" => calls[1].data = <<0, 0, 0>>
        /\ ~op.ok => op.err = "HardwareError"
        /\ op.ok => op.err = "none"

\* A write that sets the bool and the int over a register that holds 12345 in
\* its uint: the uint is written as 0.
C27_Witness ==
    /\ op.name = "write"
    /\ op.ok
    /\ hist = <<<<"write", "set_value_1">>, <<"write", "set_value_0_and_2">>>>
    /\ FooValues(calls[1].data) = <<TRUE, 0, -1>>
    /\ FooValues(read_register(device_memory, reg.address, RegisterSize)) = <<TRUE, 0, -1>>

(***************************************************************************)
(* Claims about the Debug and defmt::Format implementations.               *)
(***************************************************************************)
\* The accessors the generated Debug and Format implementations call.
FormatCalls(tokens) == SeqToSet(tokens.debug_field_calls) \cup SeqToSet(tokens.defmt_field_calls)

\* C28: every accessor the generated Debug and defmt Format implementations call
\* is a getter that generate_field_set emits for the same field set; a field
\* whose access does not permit read is not referenced by them.
C28_FormatCallsEmitted ==
    Emitted =>
        /\ FormatCalls(generated.tokens) \subseteq GetterNames(generated.tokens)
        /\ \A f \in SeqToSet(fs.fields) :
              f.access = "WO" => f.name \notin FormatCalls(generated.tokens)

(***************************************************************************)
(* InfallibleField of src/lib.rs: the mask of a field and its use in       *)
(* `val as u32 & MASK`.  A u32 is its 32 bits, bit 0 the lowest.           *)
(***************************************************************************)
\* The width of u32.
u32_BITS == 32

u32_of(set) == [i \in 0..(u32_BITS - 1) |-> IF i \in set THEN 1 ELSE 0]

\* `1 << rhs` on u32 in a constant: an error of constant evaluation when rhs is
\* not below the width.
shl_one(rhs) ==
    IF rhs >= u32_BITS THEN Err("attempt to shift left with overflow", <<"const">>)
    ELSE Ok(u32_of({rhs}))

\* `lhs - 1` on u32 in a constant: the borrow runs up to the lowest set bit.
sub_one(lhs) ==
    IF \A i \in 0..(u32_BITS - 1) : lhs[i] = 0
    THEN Err("attempt to subtract with overflow", <<"const">>)
    ELSE LET lowest == CHOOSE k \in 0..(u32_BITS - 1) :
                           lhs[k] = 1 /\ \A i \in 0..(k - 1) : lhs[i] = 0
         IN  Ok([i \in 0..(u32_BITS - 1) |->
                    IF i < lowest THEN 1 ELSE IF i = lowest THEN 0 ELSE lhs[i]])

\* const MASK: u32 = (1 << Self::NUM_BITS) - 1;
MASK(NUM_BITS) ==
    IF shl_one(NUM_BITS).ok THEN sub_one(shl_one(NUM_BITS).value) ELSE shl_one(NUM_BITS)

\* lhs & rhs on u32
bitand(lhs, rhs) == [i \in 0..(u32_BITS - 1) |-> lhs[i] * rhs[i]]

\* `val as u32 & MASK`: it has a value when MASK has one.
masked(value, mask) == IF mask.ok THEN Ok(bitand(value, mask.value)) ELSE mask

\* unsafe impl InfallibleField for Bit, and implementors of every width.
Implementors ==
    {[name |-> "Bit", NUM_BITS |-> 1]}
    \cup {[name |-> "Field", NUM_BITS |-> n] : n \in 1..u32_BITS}

\* Values of a repr: none, all, the lowest, the highest and every other bit.
ReprValues ==
    {u32_of({}), u32_of(0..(u32_BITS - 1)), u32_of({0}), u32_of({u32_BITS - 1}),
     u32_of({i \in 0..(u32_BITS - 1) : i % 2 = 1})}

InitMask ==
    /\ \E implementor \in Implementors, value \in ReprValues :
          mask_of = [name |-> implementor.name, NUM_BITS |-> implementor.NUM_BITS,
                     value |-> value]
    /\ transmuted = [state |-> "pending"]
    /\ FsIdle
    /\ RegIdle
    /\ ResIdle
    /\ ParseIdle
    /\ SpiIdle

\* mem::transmute(val as u32 & MASK)
Transmute ==
    /\ transmuted.state = "pending"
    /\ transmuted' = [state |-> "done", MASK |-> MASK(mask_of.NUM_BITS),
                      masked |-> masked(mask_of.value, MASK(mask_of.NUM_BITS))]
    /\ UNCHANGED <<mask_of, fsVars, regVars, resVars, parseVars, spiVars>>

NextMask == Transmute

SpecMask == InitMask /\ [][NextMask]_vars

\* C30: for every implementor of InfallibleField with NUM_BITS in 1..=32, MASK
\* has a value, computed without overflow, with exactly the NUM_BITS low bits
\* set, so that `val & MASK` has no bit set at or above NUM_BITS; for Bit,
\* NUM_BITS is 1 and MASK is 1.
C30_FieldMask ==
    transmuted.state = "done" =>
        /\ transmuted.MASK.ok
        /\ \A i \in 0..(u32_BITS - 1) :
              /\ transmuted.MASK.value[i] = 1 <=> i < mask_of.NUM_BITS
              /\ i >= mask_of.NUM_BITS => transmuted.masked.value[i] = 0
              /\ i < mask_of.NUM_BITS => transmuted.masked.value[i] = mask_of.value[i]
        /\ mask_of.name = "Bit" => mask_of.NUM_BITS = 1 /\ transmuted.MASK.value = u32_of({0})

(***************************************************************************)
(* ChipInterface of examples/spi_register_device_async.rs: read_register   *)
(* and write_register over the SPI bus and the chip-select pin.            *)
(***************************************************************************)
\* Most read_register / write_register calls in one behaviour.
MaxSpiCalls == 2

\* Register addresses of the example: the mode register and the port register.
SpiAddresses == {5, 1}

\* Where a call can fail: at one of its four steps, or nowhere.
ReadSteps == <<"set_low", "write", "transfer", "set_high">>
WriteSteps == <<"set_low", "write", "write", "set_high">>
FailsAt == {0, 1, 2, 3, 4}

\* 0x80 | address on u8
read_command(address) == IF address >= 128 THEN address ELSE 128 + address

\* One operation on communication_interface, with the chip-select level it met.
BusOp(fn, data, level, ok) == [fn |-> fn, data |-> data, cs |-> level, ok |-> ok]

\* The bus operations of a call whose `?` returns at step fails_at (0: none does):
\* the header at step 2 and the payload at step 3, the failing one included.
bus_ops(steps, header, payload, fails_at) ==
    IF fails_at = 1 THEN <<>>
    ELSE IF fails_at = 2 THEN <<BusOp(steps[2], header, "Low", FALSE)>>
    ELSE <<BusOp(steps[2], header, "Low", TRUE),
           BusOp(steps[3], payload, "Low", fails_at # 3)>>

\* What the call returns: the map_err of the failing step.
spi_ret(fails_at) ==
    CASE fails_at = 0 -> Ok(<<>>)
      [] fails_at \in {1, 4} -> Err("CsError", <<>>)
      [] fails_at \in {2, 3} -> Err("CommunicationError", <<>>)

\* The levels cs_pin can have when the call returns: set_low and set_high that
\* succeed set the level; one that fails may or may not have moved the pin.
cs_after(level, fails_at) ==
    CASE fails_at = 0 -> {"High"}
      [] fails_at = 1 -> {level, "Low"}
      [] fails_at \in {2, 3} -> {"Low"}
      [] fails_at = 4 -> {"Low", "High"}

InitSpi ==
    /\ cs_pin = "High"
    /\ spi_bus = <<>>
    /\ spi_calls = <<>>
    /\ FsIdle
    /\ RegIdle
    /\ ResIdle
    /\ ParseIdle
    /\ MaskIdle

\* ChipInterface::read_register
ReadRegister ==
    /\ Len(spi_calls) < MaxSpiCalls
    /\ \E address \in SpiAddresses, fails_at \in FailsAt :
          /\ cs_pin' \in cs_after(cs_pin, fails_at)
          /\ spi_bus' = spi_bus \o bus_ops(ReadSteps, <<read_command(address)>>, <<0>>, fails_at)
          /\ spi_calls' = Append(spi_calls, [fn |-> "read_register", address |-> address,
                                             ret |-> spi_ret(fails_at)])
    /\ UNCHANGED <<fsVars, regVars, resVars, parseVars, maskVars>>

\* ChipInterface::write_register
WriteRegister ==
    /\ Len(spi_calls) < MaxSpiCalls
    /\ \E address \in SpiAddresses, value \in {17, 34}, fails_at \in FailsAt :
          /\ cs_pin' \in cs_after(cs_pin, fails_at)
          /\ spi_bus' = spi_bus \o bus_ops(WriteSteps, <<address>>, <<value>>, fails_at)
          /\ spi_calls' = Append(spi_calls, [fn |-> "write_register", address |-> address,
                                             ret |-> spi_ret(fails_at)])
    /\ UNCHANGED <<fsVars, regVars, resVars, parseVars, maskVars>>

NextSpi == ReadRegister \/ WriteRegister

SpecSpi == InitSpi /\ [][NextSpi]_vars

\* C29: every read_register and write_register call drives chip-select low
\* before its first SPI bus operation and high again before it returns, on every
\* path, a failing SPI write or transfer included: no bus operation happens
\* while chip-select is high, and after any sequence of calls chip-select is high.
\* Stated for the calls in which the pin itself did what it was told.
C29_ChipSelectBracketing ==
    /\ \A i \in 1..Len(spi_bus) : spi_bus[i].cs = "Low"
    /\ (\A i \in 1..Len(spi_calls) :
            spi_calls[i].ret.ok \/ spi_calls[i].ret.err.msg = "CommunicationError")
          => cs_pin = "High"

(***************************************************************************)
(* The parsers of dsl_hir/mod.rs: Object, Access and the item lists of     *)
(* registers, commands and blocks.  An item is given as its introducing    *)
(* token (`type` or `const`), its keyword and its value.                   *)
(***************************************************************************)
\* Longest item list given to a parser.
MaxItems == 2

\* The identifiers written at keyword positions: the keywords, and spellings
\* and cases that are not keywords.
Idents ==
    {"block", "register", "command", "buffer", "ref", "Block", "REGISTER", "commands",
     "buf", "Ref", "config",
     "ReadWrite", "RW", "ReadOnly", "RO", "WriteOnly", "WO", "rw", "Rw", "readonly",
     "WriteOnl", "ABCD"}

\* str::to_lowercase on those identifiers.
to_lowercase(ident) ==
    CASE ident \in {"block", "Block"} -> "block"
      [] ident \in {"register", "REGISTER"} -> "register"
      [] ident \in {"ref", "Ref"} -> "ref"
      [] ident = "ReadWrite" -> "readwrite"
      [] ident \in {"RW", "rw", "Rw"} -> "rw"
      [] ident \in {"ReadOnly", "readonly"} -> "readonly"
      [] ident = "RO" -> "ro"
      [] ident = "WriteOnly" -> "writeonly"
      [] ident = "WO" -> "wo"
      [] ident = "WriteOnl" -> "writeonl"
      [] ident = "ABCD" -> "abcd"
      [] OTHER -> ident

\* Lookahead1::peek of a keyword; peek_ignore_case takes any case of it.
peek_ignore_case(token, keyword) == to_lowercase(token) = to_lowercase(keyword)
peek(token, keyword) == token = keyword

\* The first arm of an if-else chain of peeks that matches, 0 when none does.
first_peek(token, keywords) ==
    IF \A i \in 1..Len(keywords) : ~peek(token, keywords[i]) THEN 0
    ELSE CHOOSE i \in 1..Len(keywords) :
             /\ peek(token, keywords[i])
             /\ \A j \in 1..(i - 1) : ~peek(token, keywords[j])

\* Lookahead1::error: the message lists every keyword that was peeked.
lookahead_error(comparisons) ==
    CASE Len(comparisons) = 1 -> Err("expected _", comparisons)
      [] Len(comparisons) = 2 -> Err("expected _ or _", comparisons)
      [] OTHER -> Err("expected one of: _", comparisons)

\* The arms of Access::parse, ByteOrder::parse and BitOrder::parse.
AccessKeywords == <<"ReadWrite", "RW", "ReadOnly", "RO", "WriteOnly", "WO">>
AccessValues == <<"RW", "RW", "RO", "RO", "WO", "WO">>
ByteOrderKeywords == <<"LE", "BE">>
BitOrderKeywords == <<"LSB0", "MSB0">>

\* impl Parse for Access
Access_parse(token) ==
    IF first_peek(token, AccessKeywords) = 0 THEN lookahead_error(AccessKeywords)
    ELSE Ok(AccessValues[first_peek(token, AccessKeywords)])

\* impl Parse for ByteOrder
ByteOrder_parse(token) ==
    IF first_peek(token, ByteOrderKeywords) = 0 THEN lookahead_error(ByteOrderKeywords)
    ELSE Ok(token)

\* impl Parse for BitOrder
BitOrder_parse(token) ==
    IF first_peek(token, BitOrderKeywords) = 0 THEN lookahead_error(BitOrderKeywords)
    ELSE Ok(token)

\* The value written after `=`: its form and its text.
Value(form, text) == [form |-> form, text |-> text]
ItemToken(intro, keyword, value) == [intro |-> intro, keyword |-> keyword, value |-> value]
NoValue == Value("None", "")

ident_of(value) == IF value.form = "Ident" THEN value.text ELSE ""

\* input.parse::<syn::LitInt>(), input.parse::<syn::LitBool>(), and Repeat::parse
\* on the value.
parse_form(value, form, expected) ==
    IF value.form = form THEN Ok(value.text) ELSE Err(expected, <<>>)

\* The arms of Object::parse.
ObjectKeywords == <<"block", "register", "command", "buffer", "ref">>
ObjectKinds == <<"Block", "Register", "Command", "Buffer", "Ref">>

\* AttributeList::parse: only doc and cfg attributes are allowed.
AttributeList_parse(attributes) ==
    IF \A i \in 1..Len(attributes) : attributes[i] \in {"doc", "cfg"} THEN Ok(attributes)
    ELSE Err("Unsupported attribute _. Only doc and cfg attributes are allowed", <<>>)

\* Ok(Self::<kind>(input.parse()?)): the object parser starts with the attributes.
object_of_kind(kind, attrs) == IF attrs.ok THEN Ok(kind) ELSE attrs

\* impl Parse for Object: the lookahead is on a fork past any attribute list.
Object_parse(attributes, token) ==
    IF first_peek(token, ObjectKeywords) = 0 THEN lookahead_error(ObjectKeywords)
    ELSE object_of_kind(ObjectKinds[first_peek(token, ObjectKeywords)],
                        AttributeList_parse(attributes))

\* The keywords each item list takes after `type` and after `const`, in the
\* order of its lookahead.
RegisterItemKeywords ==
    [type |-> <<"Access", "ByteOrder", "BitOrder">>,
     const |-> <<"ADDRESS", "SIZE_BITS", "RESET_VALUE", "REPEAT", "ALLOW_BIT_OVERLAP",
                 "ALLOW_ADDRESS_OVERLAP">>]
CommandItemKeywords ==
    [type |-> <<"ByteOrder", "BitOrder">>,
     const |-> <<"ADDRESS", "SIZE_BITS_IN", "SIZE_BITS_OUT", "REPEAT", "ALLOW_BIT_OVERLAP",
                 "ALLOW_ADDRESS_OVERLAP">>]
BlockItemKeywords == [const |-> <<"ADDRESS_OFFSET", "REPEAT">>]

\* The variant an item of a keyword becomes; a RESET_VALUE becomes the variant
\* of the form of its value.
variant_of_keyword(keyword, value) ==
    CASE keyword = "ADDRESS" -> "Address"
      [] keyword = "ADDRESS_OFFSET" -> "AddressOffset"
      [] keyword = "SIZE_BITS" -> "SizeBits"
      [] keyword = "SIZE_BITS_IN" -> "SizeBitsIn"
      [] keyword = "SIZE_BITS_OUT" -> "SizeBitsOut"
      [] keyword = "RESET_VALUE" ->
            IF value.form = "Bracket" THEN "ResetValueArray" ELSE "ResetValueInt"
      [] keyword = "REPEAT" -> "Repeat"
      [] keyword = "ALLOW_BIT_OVERLAP" -> "AllowBitOverlap"
      [] keyword = "ALLOW_ADDRESS_OVERLAP" -> "AllowAddressOverlap"
      [] OTHER -> keyword

\* The discriminants err_if_contains is called with before an item of a keyword
\* is parsed; reset_value_int_only leaves out the second call for RESET_VALUE.
reset_value_int_only(keyword) ==
    IF keyword = "RESET_VALUE" THEN <<"ResetValueInt">>
    ELSE <<variant_of_keyword(keyword, NoValue)>>
checked_discriminants(keyword) ==
    IF keyword = "RESET_VALUE" THEN <<"ResetValueInt", "ResetValueArray">>
    ELSE <<variant_of_keyword(keyword, NoValue)>>

\* err_if_contains, for each discriminant in turn.
err_if_contains(items, discrs) ==
    IF \E i \in 1..Len(items), d \in 1..Len(discrs) : discriminant(items[i]) = discrs[d]
    THEN Err("duplicate item found", <<>>)
    ELSE Ok(<<>>)

\* The value of an item: what is parsed after `<keyword> =`.
parse_item_value(keyword, value) ==
    CASE keyword = "Access" -> Access_parse(ident_of(value))
      [] keyword = "ByteOrder" -> ByteOrder_parse(ident_of(value))
      [] keyword = "BitOrder" -> BitOrder_parse(ident_of(value))
      [] keyword = "RESET_VALUE" ->
            IF value.form \in {"LitInt", "Bracket"} THEN Ok(value.text)
            ELSE Err("expected integer literal or square brackets", <<>>)
      [] keyword = "REPEAT" -> parse_form(value, "Brace", "expected curly braces")
      [] keyword \in {"ALLOW_BIT_OVERLAP", "ALLOW_ADDRESS_OVERLAP"} ->
            parse_form(value, "LitBool", "expected boolean literal")
      [] OTHER -> parse_form(value, "LitInt", "expected integer literal")

\* One item after its keyword was recognised: the duplicate check, then the
\* value, then the push.
push_item(items, token, duplicate, value) ==
    IF ~duplicate.ok THEN duplicate
    ELSE IF ~value.ok THEN value
    ELSE Ok(Append(items, [kind |-> variant_of_keyword(token.keyword, token.value),
                           value |-> value.value]))

\* What an item list does with a keyword it does not take: the lookahead error
\* of registers and commands, the message of blocks.
unknown_item(parser, keywords) ==
    IF parser = "BlockItemList"
    THEN Err("Invalid value. Must be an ADDRESS_OFFSET or REPEAT", <<>>)
    ELSE lookahead_error(keywords)

\* One turn of the loop of an item list: the items after the token, or an error.
parse_item(parser, keywords, items, token) ==
    IF first_peek(token.keyword, keywords) = 0 THEN unknown_item(parser, keywords)
    ELSE push_item(items, token, err_if_contains(items, checked_discriminants(token.keyword)),
                   parse_item_value(token.keyword, token.value))

\* The loop of an item list: it ends at the end of the input and at a token
\* that does not introduce an item.
RECURSIVE item_list_loop(_, _, _, _)
item_list_loop(parser, grammar, tokens, items) ==
    IF tokens = <<>> \/ Head(tokens).intro \notin DOMAIN grammar THEN Ok(items)
    ELSE IF parse_item(parser, grammar[Head(tokens).intro], items, Head(tokens)).ok
    THEN item_list_loop(parser, grammar, Tail(tokens),
                        parse_item(parser, grammar[Head(tokens).intro], items,
                                   Head(tokens)).value)
    ELSE parse_item(parser, grammar[Head(tokens).intro], items, Head(tokens))

\* impl Parse for RegisterItemList
RegisterItemList_parse(tokens) ==
    item_list_loop("RegisterItemList", RegisterItemKeywords, tokens, <<>>)

\* impl Parse for CommandItemList
CommandItemList_parse(tokens) ==
    item_list_loop("CommandItemList", CommandItemKeywords, tokens, <<>>)

\* impl Parse for BlockItemList
BlockItemList_parse(tokens) ==
    item_list_loop("BlockItemList", BlockItemKeywords, tokens, <<>>)

(***************************************************************************)
(* The inputs given to the parsers.                                        *)
(***************************************************************************)
RegisterItemTokens ==
    {ItemToken("type", "Access", Value("Ident", "RW")),
     ItemToken("type", "Access", Value("Ident", "RO")),
     ItemToken("type", "Access", Value("Ident", "rw")),
     ItemToken("type", "ByteOrder", Value("Ident", "LE")),
     ItemToken("type", "BitOrder", Value("Ident", "LSB0")),
     ItemToken("type", "Acess", Value("Ident", "RW")),
     ItemToken("const", "ADDRESS", Value("LitInt", "3")),
     ItemToken("const", "ADDRESS", Value("LitInt", "5")),
     ItemToken("const", "SIZE_BITS", Value("LitInt", "16")),
     ItemToken("const", "RESET_VALUE", Value("LitInt", "0x1234")),
     ItemToken("const", "RESET_VALUE", Value("Bracket", "[0x12, 0x34]")),
     ItemToken("const", "RESET_VALUE", NoValue),
     ItemToken("const", "REPEAT", Value("Brace", "{ count: 2, stride: 2 }")),
     ItemToken("const", "ALLOW_BIT_OVERLAP", Value("LitBool", "true")),
     ItemToken("const", "ALLOW_ADDRESS_OVERLAP", Value("LitBool", "false")),
     ItemToken("field", "value", Value("Ident", "uint"))}

CommandItemTokens ==
    {ItemToken("type", "ByteOrder", Value("Ident", "LE")),
     ItemToken("type", "ByteOrder", Value("Ident", "BE")),
     ItemToken("type", "BitOrder", Value("Ident", "MSB0")),
     ItemToken("type", "Access", Value("Ident", "RW")),
     ItemToken("const", "ADDRESS", Value("LitInt", "3")),
     ItemToken("const", "ADDRESS", Value("LitInt", "5")),
     ItemToken("const", "SIZE_BITS_IN", Value("LitInt", "8")),
     ItemToken("const", "SIZE_BITS_OUT", Value("LitInt", "8")),
     ItemToken("const", "SIZE_BITS_OUT", Value("LitBool", "true")),
     ItemToken("const", "REPEAT", Value("Brace", "{ count: 2, stride: 2 }")),
     ItemToken("const", "REPEAT", Value("LitInt", "2")),
     ItemToken("const", "ALLOW_BIT_OVERLAP", Value("LitBool", "true")),
     ItemToken("const", "ALLOW_ADDRESS_OVERLAP", Value("LitBool", "false")),
     ItemToken("in", "", NoValue)}

BlockItemTokens ==
    {ItemToken("const", "ADDRESS_OFFSET", Value("LitInt", "0")),
     ItemToken("const", "ADDRESS_OFFSET", Value("LitInt", "4")),
     ItemToken("const", "ADDRESS_OFFSET", NoValue),
     ItemToken("const", "REPEAT", Value("Brace", "{ count: 2, stride: 2 }")),
     ItemToken("const", "REPEAT", Value("Brace", "{ count: 4, stride: 16 }")),
     ItemToken("const", "ADDRESS", Value("LitInt", "3")),
     ItemToken("register", "Foo", NoValue)}

Lists(tokens) == UNION {[1..n -> tokens] : n \in 0..MaxItems}

AttributeNames == {<<>>, <<"doc">>, <<"cfg", "doc">>, <<"foo">>}

ParseInput(parser, attributes, tokens) ==
    [parser |-> parser, attributes |-> attributes, tokens |-> tokens]

ParseInputs ==
    {ParseInput("RegisterItemList", <<>>, tokens) : tokens \in Lists(RegisterItemTokens)}
    \cup {ParseInput("CommandItemList", <<>>, tokens) : tokens \in Lists(CommandItemTokens)}
    \cup {ParseInput("BlockItemList", <<>>, tokens) : tokens \in Lists(BlockItemTokens)}
    \cup {ParseInput("Object", attributes, <<ItemToken("", ident, NoValue)>>) :
            attributes \in AttributeNames, ident \in Idents}
    \cup {ParseInput("Access", <<>>, <<ItemToken("", ident, NoValue)>>) : ident \in Idents}

\* syn::parse_str::<parser>(tokens)
parse(in) ==
    CASE in.parser = "RegisterItemList" -> RegisterItemList_parse(in.tokens)
      [] in.parser = "CommandItemList" -> CommandItemList_parse(in.tokens)
      [] in.parser = "BlockItemList" -> BlockItemList_parse(in.tokens)
      [] in.parser = "Object" -> Object_parse(in.attributes, in.tokens[1].keyword)
      [] in.parser = "Access" -> Access_parse(in.tokens[1].keyword)

InitParse ==
    /\ parse_input \in ParseInputs
    /\ parse_result = [state |-> "pending"]
    /\ FsIdle
    /\ RegIdle
    /\ ResIdle
    /\ SpiIdle
    /\ MaskIdle

Parse ==
    /\ parse_result.state = "pending"
    /\ parse_result' = [state |-> "done", ret |-> parse(parse_input)]
    /\ UNCHANGED <<parse_input, fsVars, regVars, resVars, spiVars, maskVars>>

NextParse == Parse

SpecParse == InitParse /\ [][NextParse]_vars

Parsed == parse_result.state = "done"

(***************************************************************************)
(* Claims about the parsers.                                               *)
(***************************************************************************)
ItemListParsers == {"RegisterItemList", "CommandItemList", "BlockItemList"}

\* The kind of a parsed item: both forms of a reset value are one kind.
KindOf(item) ==
    IF item.kind \in {"ResetValueInt", "ResetValueArray"} THEN "ResetValue" ELSE item.kind

\* The token is written as an item and parses, on its own, to one item.
ParsesAlone(token) ==
    /\ parse(ParseInput(parse_input.parser, <<>>, <<token>>)).ok
    /\ Len(parse(ParseInput(parse_input.parser, <<>>, <<token>>)).value) = 1

\* Token j is a second item of the kind of an earlier one, after items that
\* parse.
SecondOfKind(j) ==
    /\ \A i \in 1..(j - 1) : ParsesAlone(parse_input.tokens[i])
    /\ \A i \in 1..(j - 1), k \in 1..(j - 1) :
          i # k => parse_input.tokens[i].keyword # parse_input.tokens[k].keyword
    /\ \E i \in 1..(j - 1) :
          /\ parse_input.tokens[i].intro = parse_input.tokens[j].intro
          /\ parse_input.tokens[i].keyword = parse_input.tokens[j].keyword

\* C24: a successfully parsed register, command or block item list has at most
\* one item of each kind, the integer and the array form of RESET_VALUE being
\* one kind; parsing a second item of a kind already present fails with
\* 'duplicate item found', whatever the values.
C24_ItemUniqueness ==
    Parsed /\ parse_input.parser \in ItemListParsers =>
        /\ parse_result.ret.ok =>
              \A i \in 1..Len(parse_result.ret.value), j \in 1..Len(parse_result.ret.value) :
                  i # j => KindOf(parse_result.ret.value[i]) # KindOf(parse_result.ret.value[j])
        /\ \A j \in 1..Len(parse_input.tokens) :
              SecondOfKind(j) =>
                  /\ ~parse_result.ret.ok
                  /\ parse_result.ret.err.msg = "duplicate item found"

\* An array RESET_VALUE after an integer one, refused as a duplicate.
C24_Witness ==
    /\ Parsed
    /\ parse_input.parser = "RegisterItemList"
    /\ Len(parse_input.tokens) = 2
    /\ parse_input.tokens[1] = ItemToken("const", "RESET_VALUE", Value("LitInt", "0x1234"))
    /\ parse_input.tokens[2] = ItemToken("const", "RESET_VALUE", Value("Bracket", "[0x12, 0x34]"))
    /\ ~parse_result.ret.ok
    /\ parse_result.ret.err.msg = "duplicate item found"

\* The keywords the claim names for an object and for an access.
NamedKeywords(parser) ==
    IF parser = "Object" THEN {"block", "register", "command", "buffer", "ref"}
    ELSE {"ReadWrite", "RW", "ReadOnly", "RO", "WriteOnly", "WO"}

=============================================================================
